---- MODULE Spec2Model ----
(***************************************************************************)
(* Verification model of the rocket ground-control panel.                  *)
(*                                                                         *)
(*   - the task-gated launch procedure (src/test.py: FireProcedure,        *)
(*     StateMachine, MainWindow)            specification SpecProc         *)
(*   - the stage / abort / countdown logic of the two display windows      *)
(*     (src/main.py and src/gui.py)         specification SpecStage        *)
(*   - the serial worker, its lock and the operator's sends                *)
(*     (src/utils/gui_serial.py, src/main.py)                              *)
(*                                          specifications SpecWorker,     *)
(*                                          FairWorker                     *)
(*   - the inbound line parser (src/main.py parseData / updateDisplay)     *)
(*                                          specification SpecParse        *)
(*                                                                         *)
(* Every specification leaves the variables of the other parts unchanged.  *)
(***************************************************************************)
EXTENDS Integers, Sequences, FiniteSets, TLC

VARIABLES
    \* ---- src/test.py ----
    currentStage,   \* FireProcedure.currentStage (a stage name or NULL)
    tasks,          \* FireProcedure.tasks: stage -> (label -> flag)
    labelColor,     \* colour of every widget of FireProcedure.labels
    lastUpdate,     \* value returned by the last StateMachine.update()
    procRaised,     \* an exception escaped a slot of test.py's MainWindow
    directCalls,    \* number of direct changeStatus calls made so far
    \* ---- src/main.py : RocketDisplayWindow (stage logic) ----
    currentState,   \* index into LAUNCH_STATES
    aborted,        \* self.aborted
    moment,         \* self.moment of countDown
    countdown,      \* self.countdown: "none", "active" or "stopped"
    stateDisplay,   \* text of dynamicLabels[CURR_STATE]
    \* ---- src/gui.py : RocketDisplayWindow ----
    guiCurrentState,  \* index into LAUNCH_MODE
    guiAborted,       \* self.aborted
    guiMoment,        \* self.moment of _countDown
    guiCountdown,     \* self.countdown: "none", "active" or "stopped"
    guiStateDisplay,  \* text of dynamicLabels["StateDisplay"]
    \* ---- src/utils/gui_serial.py and the serial part of src/main.py ----
    program,        \* SerialWorker.program, the running flag
    error,          \* the local flag error of SerialWorker.run
    received,       \* the local received of SerialWorker.run (None and "" are <<>>)
    line,           \* the bytearray line of SerialComm.readEolLine
    wpc,            \* position of the worker thread in SerialWorker.run
    mutex,          \* holder of the QMutex: "free", "worker" or "gui"
    gpc,            \* position of the operator (GUI) thread
    serialOn,       \* RocketDisplayWindow.serialOn
    isOpen,         \* serial.Serial.is_open of the connection
    deviceOk,       \* the device is attached and answers
    inbound,        \* bytes received from the device and not yet read
    sent,           \* number of bytes the device has sent so far
    sendCalls,      \* number of sendToggle calls made so far
    wire,           \* the messages written to the link, in order
    writeFails,     \* number of writes that raised SerialException
    readFails,      \* number of reads that raised (saturates at 2)
    emitted,        \* the signals emitted by the worker, in order
    errors,         \* number of error signals emitted (saturates at 2)
    cleanups,       \* number of cleanup signals emitted (saturates at 2)
    lateSignal,     \* a msg or error signal was emitted after cleanup
    streaming,      \* the device has begun to stream without end
    reads,          \* the non-empty results of readEolLine, in read order
                    \* (logged as long as emitted is)
    afterStop,      \* msg and error signals emitted with program cleared
    \* ---- src/main.py : displayControl / parseData / updateDisplay ----
    dynamicLabels,  \* text and style of the SV and PT labels
    string,         \* the argument of the displayControl call in progress
    data,           \* the local data of displayControl (result of parseData)
    dpc,            \* position in displayControl: "idle" or "parsed"
    parseRaised,    \* an exception escaped displayControl
    \* ---- src/main.py : sendMessage (the command side) ----
    serialEntry,    \* text of the QLineEdit self.serialEntry
    command,        \* the command of the last call that reached sendToggle
    message,        \* the message sendToggle built for it (<<>> before any)
    confBox,        \* title of the box sendMessage showed last, or "none"
    \* ---- src/main.py : updateDisplay, the colour of one reading ----
    reading,        \* the local reading (an integer)
    style,          \* the style sheet chosen for it, or "none" before
    \* ---- src/main.py : setupSerial / toggleSerial / serialError ----
    serialSet,      \* self.serialSet
    linkOn,         \* self.serialOn of the window that starts and stops workers
    workers,        \* the SerialWorker objects made so far, the last one is
                    \* self.serialWorker: program, position of run, is_open
                    \* of the connection the worker reads
    lpc,            \* position of the GUI thread: "idle" or "stop_sleep"
    pendingErrors,  \* error signals queued for the GUI thread
    linkBox,        \* message of the box shown last, or "none"
    deviceUp        \* the serial device can be opened and read

procVars == <<currentStage, tasks, labelColor, lastUpdate, procRaised, directCalls>>
mainStageVars == <<currentState, aborted, moment, countdown, stateDisplay>>
guiVars == <<guiCurrentState, guiAborted, guiMoment, guiCountdown, guiStateDisplay>>
stageVars == <<mainStageVars, guiVars>>

workerVars == <<program, error, received, line, wpc, mutex, gpc, serialOn, isOpen,
                deviceOk, inbound, sent, sendCalls, wire, writeFails, readFails,
                emitted, errors, cleanups, lateSignal, streaming, reads,
                afterStop>>

parseVars == <<dynamicLabels, string, data, dpc, parseRaised>>

sendVars == <<serialEntry, command, message, confBox>>

bandVars == <<reading, style>>

linkVars == <<serialSet, linkOn, workers, lpc, pendingErrors, linkBox, deviceUp>>

vars == <<procVars, stageVars, workerVars, parseVars, sendVars, bandVars, linkVars>>

(***************************************************************************)
(* Bounds of the model                                                     *)
(***************************************************************************)
MaxDirectCalls == 2
\* bytes the device sends before it falls silent (or only streams, in FairWorker)
MaxBytes == 3
\* capacity of the receive buffer
MaxBuf == 2
\* sendToggle calls the operator makes
MaxSends == 2
\* characters that follow "Toggle PIN3" in an inbound valve line
MaxRest == 3
\* values in an inbound pressure line
MaxParts == 3
\* characters of the longest command the operator types into the entry line
MaxCommand == 9
\* the readings classified lie in -MaxReading .. MaxReading
MaxReading == 1002
\* starts of a worker (calls of threadingSetup) followed
MaxStarts == 2

(***************************************************************************)
(* src/test.py : RocketStates                                              *)
(***************************************************************************)
IDLE == "Leak Checks:"
HIGH_PRESS == "Upper Pressurization:"
TANK_HP == "Fuel/Ox Pressurization:"
FIRE == "Initiate Launch:"
states == {IDLE, HIGH_PRESS, TANK_HP, FIRE}

COPV_OPEN == "COPV_O"
KBOTTLE == "KBOTTLE"
COPV_EQ == "COPV_E"
COPV_CLOSE == "COPV_C"
TANKS_OPEN == "TANKS"
FIRE_INIT == "FIRE_I"
NULL == "None"

IDLE_TASKS == (COPV_OPEN :> FALSE)
HP_TASKS == (KBOTTLE :> FALSE) @@ (COPV_EQ :> FALSE)
TANK_HP_TASKS == (COPV_CLOSE :> FALSE) @@ (TANKS_OPEN :> FALSE)
FIRE_TASKS == (FIRE_INIT :> FALSE)

\* a label that is neither a stage name nor a task id
UNKNOWN_LABEL == "NO_SUCH_LABEL"

TaskIds == {COPV_OPEN, KBOTTLE, COPV_EQ, COPV_CLOSE, TANKS_OPEN, FIRE_INIT}

\* the keys of FireProcedure.labels after construction
LabelKeys == states \cup TaskIds

\* the labels a caller may hand to changeStatus
LabelInputs == LabelKeys \cup {UNKNOWN_LABEL}

(***************************************************************************)
(* src/test.py : MainWindow.__init__, the addState table                   *)
(***************************************************************************)
StateNext ==
    (IDLE :> HIGH_PRESS) @@ (HIGH_PRESS :> TANK_HP) @@ (TANK_HP :> FIRE) @@ (FIRE :> NULL)

(***************************************************************************)
(* src/test.py : FireProcedure.__init__ / addStage                         *)
(***************************************************************************)
ProcInit ==
    /\ currentStage = IDLE
    /\ tasks = (IDLE :> IDLE_TASKS) @@ (HIGH_PRESS :> HP_TASKS)
                 @@ (TANK_HP :> TANK_HP_TASKS) @@ (FIRE :> FIRE_TASKS)
    /\ labelColor = [l \in LabelKeys |-> "white"]
    /\ lastUpdate = "none yet"
    /\ procRaised = FALSE
    /\ directCalls = 0

StatusColor(status) == IF status THEN "#00A891" ELSE "white"

(***************************************************************************)
(* FireProcedure.changeStatus(label, status): the values of tasks and      *)
(* labelColor after the call made with current stage cur.  The assignment  *)
(* tasks[cur][label] = status creates the key when it is absent; a         *)
(* KeyError (cur is None, or label has no widget) ends the call.           *)
(***************************************************************************)
ChangeStatusTasks_Toggle(cur, label, status) ==
    IF label \in states THEN tasks
    ELSE IF cur \notin DOMAIN tasks THEN tasks
    ELSE IF label \in DOMAIN tasks[cur]
    THEN [tasks EXCEPT ![cur][label] = ~tasks[cur][label]]
    ELSE [tasks EXCEPT ![cur] = (label :> status) @@ tasks[cur]]

ChangeStatusTasks(cur, label, status) ==
    IF label \in states THEN tasks
    ELSE IF cur \notin DOMAIN tasks THEN tasks
    ELSE [tasks EXCEPT ![cur] = (label :> status) @@ tasks[cur]]

ChangeStatusColors(cur, label, status) ==
    IF label \notin states /\ cur \notin DOMAIN tasks THEN labelColor
    ELSE IF label \notin DOMAIN labelColor THEN labelColor
    ELSE [labelColor EXCEPT ![label] = StatusColor(status)]

(***************************************************************************)
(* StateMachine.update(): the loop over tasks[current].values() returns    *)
(* False at the first flag that is not set.                                *)
(***************************************************************************)
UpdateBlocked_NoneDone(ts) == \A t \in DOMAIN ts : ~ts[t]

UpdateBlocked(ts) == \E t \in DOMAIN ts : ~ts[t]

(***************************************************************************)
(* MainWindow.updateStage (button "Advance Stage")                         *)
(***************************************************************************)
UpdateStage_ClearsOnFail ==
    /\ ~procRaised
    /\ IF currentStage \notin DOMAIN tasks
       THEN /\ procRaised' = TRUE
            /\ UNCHANGED <<currentStage, tasks, labelColor, lastUpdate, directCalls>>
       ELSE IF UpdateBlocked(tasks[currentStage])
       THEN /\ lastUpdate' = "False"
            /\ tasks' = [tasks EXCEPT ![currentStage] =
                            [t \in DOMAIN tasks[currentStage] |-> FALSE]]
            /\ UNCHANGED <<currentStage, labelColor, procRaised, directCalls>>
       ELSE /\ lastUpdate' = currentStage
            /\ currentStage' = StateNext[currentStage]
            /\ tasks' = ChangeStatusTasks(StateNext[currentStage], currentStage, TRUE)
            /\ labelColor' = ChangeStatusColors(StateNext[currentStage], currentStage, TRUE)
            /\ UNCHANGED <<procRaised, directCalls>>

UpdateStage ==
    /\ ~procRaised
    /\ IF currentStage \notin DOMAIN tasks
       THEN \* self.procedure.tasks[None] raises KeyError
            /\ procRaised' = TRUE
            /\ UNCHANGED <<currentStage, tasks, labelColor, lastUpdate, directCalls>>
       ELSE IF UpdateBlocked(tasks[currentStage])
       THEN /\ lastUpdate' = "False"
            /\ UNCHANGED <<currentStage, tasks, labelColor, procRaised, directCalls>>
       ELSE /\ lastUpdate' = currentStage
            /\ currentStage' = StateNext[currentStage]
            /\ tasks' = ChangeStatusTasks(StateNext[currentStage], currentStage, TRUE)
            /\ labelColor' = ChangeStatusColors(StateNext[currentStage], currentStage, TRUE)
            /\ UNCHANGED <<procRaised, directCalls>>

(***************************************************************************)
(* FireProcedure.idleTasks / highPressTasks / tankHighPressTasks /         *)
(* fireTasks: the task the confirm handler of a stage offers next.         *)
(***************************************************************************)
idleTasks ==
    IF ~tasks[IDLE][COPV_OPEN] THEN COPV_OPEN ELSE NULL

highPressTasks ==
    IF ~tasks[HIGH_PRESS][KBOTTLE] THEN KBOTTLE
    ELSE IF ~tasks[HIGH_PRESS][COPV_EQ] THEN COPV_EQ ELSE NULL

tankHighPressTasks ==
    IF ~tasks[TANK_HP][COPV_CLOSE] THEN COPV_CLOSE
    ELSE IF ~tasks[TANK_HP][TANKS_OPEN] THEN TANKS_OPEN ELSE NULL

fireTasks ==
    IF ~tasks[FIRE][FIRE_INIT] THEN FIRE_INIT ELSE NULL

Confirms(stage) ==
    CASE stage = IDLE -> idleTasks
      [] stage = HIGH_PRESS -> highPressTasks
      [] stage = TANK_HP -> tankHighPressTasks
      [] stage = FIRE -> fireTasks

(***************************************************************************)
(* MainWindow.updateTask (button "Mark Next Task"); ok is the operator's   *)
(* answer to the confirmation box.                                         *)
(***************************************************************************)
UpdateTask ==
    /\ ~procRaised
    /\ \E ok \in BOOLEAN :
        IF currentStage \notin DOMAIN StateNext
        THEN \* self.sm.states[None] raises KeyError
             /\ procRaised' = TRUE
             /\ UNCHANGED <<currentStage, tasks, labelColor, lastUpdate, directCalls>>
        ELSE LET task == Confirms(currentStage) IN
             IF ok /\ task # NULL
             THEN /\ tasks' = ChangeStatusTasks(currentStage, task, TRUE)
                  /\ labelColor' = ChangeStatusColors(currentStage, task, TRUE)
                  /\ UNCHANGED <<currentStage, lastUpdate, procRaised, directCalls>>
             ELSE UNCHANGED procVars

(***************************************************************************)
(* FireProcedure.changeStatus called directly by a client of the class     *)
(***************************************************************************)
changeStatus_WholeStage(label, status) ==
    /\ ~procRaised
    /\ directCalls < MaxDirectCalls
    /\ tasks' = IF label \in states \/ currentStage \notin DOMAIN tasks
                THEN tasks
                ELSE [tasks EXCEPT ![currentStage] =
                        (label :> status) @@ [t \in DOMAIN tasks[currentStage] |-> status]]
    /\ labelColor' = ChangeStatusColors(currentStage, label, status)
    /\ directCalls' = directCalls + 1
    /\ UNCHANGED <<currentStage, lastUpdate, procRaised>>

changeStatus(label, status) ==
    /\ ~procRaised
    /\ directCalls < MaxDirectCalls
    /\ tasks' = ChangeStatusTasks(currentStage, label, status)
    /\ labelColor' = ChangeStatusColors(currentStage, label, status)
    /\ directCalls' = directCalls + 1
    /\ UNCHANGED <<currentStage, lastUpdate, procRaised>>

ChangeStatus ==
    \E label \in LabelInputs, status \in BOOLEAN : changeStatus(label, status)

(***************************************************************************)
(* src/main.py and src/gui.py : the stage tables                           *)
(***************************************************************************)
LAUNCH_STATES == <<"IDLE", "SYSTEM CHECKS", "HIGH PRESSURE", "TANK HIGH PRESSURE", "FIRE">>
LAUNCH_MODE == <<"LOADING", "FUEL OUT", "OPEN V1", "OPEN V2", "IGNITION">>

\* self.moment = 11 at the start of a countdown
COUNT_START == 11
\* self.moment = "BLASTOFF", the launch marker (moment is otherwise a number >= 1)
BLASTOFF == 0
\* self.moment before the first countdown (the attribute does not exist)
NO_MOMENT == 0 - 1

StageText(name) == [kind |-> "STAGE", stage |-> name, n |-> 0]
AbortedText == [kind |-> "MISSION ABORTED", stage |-> "", n |-> 0]
CountdownText(m) == [kind |-> "COUNTDOWN", stage |-> "", n |-> m]

(***************************************************************************)
(* src/main.py : RocketDisplayWindow.__init__                              *)
(***************************************************************************)
MainStageInit ==
    /\ currentState = 0
    /\ aborted = FALSE
    /\ moment = NO_MOMENT
    /\ countdown = "none"
    /\ stateDisplay = StageText(LAUNCH_STATES[1])

(***************************************************************************)
(* src/main.py : RocketDisplayWindow.updateStage; ok is the answer to the  *)
(* confirmation box, which is only asked when the mission is not aborted.  *)
(* LAUNCH_STATES[currentState] of the code is LAUNCH_STATES[currentState+1]*)
(* here, sequences being 1-based.                                          *)
(***************************************************************************)
updateStage ==
    \E ok \in BOOLEAN :
        IF ~aborted /\ ~ok THEN UNCHANGED mainStageVars
        ELSE IF currentState + 1 >= Len(LAUNCH_STATES) THEN UNCHANGED mainStageVars
        ELSE /\ currentState' = currentState + 1
             /\ stateDisplay' = StageText(LAUNCH_STATES[currentState + 2])
             /\ UNCHANGED <<aborted, moment, countdown>>

(***************************************************************************)
(* src/main.py : RocketDisplayWindow.previousStage                         *)
(***************************************************************************)
\* "if self.currentState - 1 < 0: return" left out: the index -1 is LAUNCH_STATES[-1]
previousStageFrom_NoFloor(ok) ==
    IF ~aborted /\ ~ok THEN UNCHANGED mainStageVars
    ELSE /\ currentState' = currentState - 1
         /\ stateDisplay' = StageText(LAUNCH_STATES[IF currentState = 0
                                                   THEN Len(LAUNCH_STATES)
                                                   ELSE currentState])
         /\ UNCHANGED <<aborted, moment, countdown>>

previousStageFrom(ok) ==
    IF ~aborted /\ ~ok THEN UNCHANGED mainStageVars
    ELSE IF currentState - 1 < 0 THEN UNCHANGED mainStageVars
    ELSE /\ currentState' = currentState - 1
         /\ stateDisplay' = StageText(LAUNCH_STATES[currentState])
         /\ UNCHANGED <<aborted, moment, countdown>>

previousStage == \E ok \in BOOLEAN : previousStageFrom(ok)

(***************************************************************************)
(* src/main.py : RocketDisplayWindow.abortMission, reached through         *)
(* abortOverpressure and abortIgnitionFail (both guarded by not aborted).  *)
(* countdown.stop() raises AttributeError, which is caught, when no        *)
(* countdown was ever created.                                             *)
(***************************************************************************)
abortMission(ok) ==
    IF ok
    THEN /\ stateDisplay' = AbortedText
         /\ aborted' = TRUE
         /\ countdown' = IF countdown = "none" THEN "none" ELSE "stopped"
         /\ UNCHANGED <<currentState, moment>>
    ELSE UNCHANGED mainStageVars

abortOverpressure ==
    \E ok \in BOOLEAN :
        IF ~aborted THEN abortMission(ok) ELSE UNCHANGED mainStageVars

abortIgnitionFail ==
    \E ok \in BOOLEAN :
        IF ~aborted THEN abortMission(ok) ELSE UNCHANGED mainStageVars

(***************************************************************************)
(* countSecond, the closure of countDown / _countDown: the moment and      *)
(* whether the timer is stopped after one call.                            *)
(***************************************************************************)
CountSecondMoment(m) == IF m - 1 = 0 THEN BLASTOFF ELSE m - 1

(***************************************************************************)
(* src/main.py : RocketDisplayWindow.countDown.  No button of main.py is   *)
(* linked to it; it is the entry the integration layer calls.  The first   *)
(* countSecond() runs before the timer exists; a new QTimer replaces (and  *)
(* thereby destroys) the previous one.                                     *)
(***************************************************************************)
countDown ==
    IF ~aborted
    THEN /\ moment' = CountSecondMoment(COUNT_START)
         /\ stateDisplay' = CountdownText(moment')
         /\ countdown' = "active"
         /\ UNCHANGED <<currentState, aborted>>
    ELSE UNCHANGED mainStageVars

\* the QTimer of countDown fires (every 1000 ms while active)
countSecond ==
    /\ countdown = "active"
    /\ moment' = CountSecondMoment(moment)
    /\ countdown' = IF moment' = BLASTOFF THEN "stopped" ELSE "active"
    /\ stateDisplay' = CountdownText(moment')
    /\ UNCHANGED <<currentState, aborted>>

(***************************************************************************)
(* src/gui.py : RocketDisplayWindow.__init__                               *)
(***************************************************************************)
GuiInit ==
    /\ guiCurrentState = 0
    /\ guiAborted = FALSE
    /\ guiMoment = NO_MOMENT
    /\ guiCountdown = "none"
    /\ guiStateDisplay = StageText(LAUNCH_MODE[1])

(***************************************************************************)
(* src/gui.py : RocketDisplayWindow._countDown                             *)
(***************************************************************************)
_countDown ==
    IF ~guiAborted
    THEN /\ guiMoment' = CountSecondMoment(COUNT_START)
         /\ guiStateDisplay' = CountdownText(guiMoment')
         /\ guiCountdown' = "active"
         /\ UNCHANGED <<guiCurrentState, guiAborted>>
    ELSE UNCHANGED guiVars

(***************************************************************************)
(* src/gui.py : RocketDisplayWindow._advanceState (button PROCEED)         *)
(***************************************************************************)
_advanceState ==
    IF guiCurrentState <= Len(LAUNCH_MODE) - 2 /\ ~guiAborted
    THEN /\ guiCurrentState' = guiCurrentState + 1
         /\ guiStateDisplay' = StageText(LAUNCH_MODE[guiCurrentState + 2])
         /\ UNCHANGED <<guiAborted, guiMoment, guiCountdown>>
    ELSE IF guiCurrentState = Len(LAUNCH_MODE) - 1 /\ ~guiAborted
    THEN _countDown
    ELSE UNCHANGED guiVars

(***************************************************************************)
(* src/gui.py : RocketDisplayWindow._abortMission (button ABORT)           *)
(***************************************************************************)
_abortMission_Toggle ==
    /\ guiStateDisplay' = AbortedText
    /\ guiAborted' = ~guiAborted
    /\ UNCHANGED <<guiCurrentState, guiMoment, guiCountdown>>

_abortMission ==
    /\ guiStateDisplay' = AbortedText
    /\ guiAborted' = TRUE
    /\ UNCHANGED <<guiCurrentState, guiMoment, guiCountdown>>

\* the QTimer of _countDown fires (every 1000 ms while active)
_countSecond ==
    /\ guiCountdown = "active"
    /\ guiMoment' = CountSecondMoment(guiMoment)
    /\ guiCountdown' = IF guiMoment' = BLASTOFF THEN "stopped" ELSE "active"
    /\ guiStateDisplay' = CountdownText(guiMoment')
    /\ UNCHANGED <<guiCurrentState, guiAborted>>

(***************************************************************************)
(* Bytes on the serial line: an ASCII character, the line feed, and a byte *)
(* that is not ASCII (decode("ascii") raises UnicodeDecodeError on it).    *)
(***************************************************************************)
CHAR == "c"
LF == "LF"
NON_ASCII == "x80"
Bytes == {CHAR, LF, NON_ASCII}

\* the recorded part of a line or of the signal log is bounded
MaxLine == MaxBytes
MaxLog == MaxBytes + 2

Saturate(n) == IF n < 2 THEN n + 1 ELSE 2

AppendByte(l, c) == IF Len(l) < MaxLine THEN Append(l, c) ELSE l

(***************************************************************************)
(* pyqtSignal.emit of msg / error / cleanup                                *)
(***************************************************************************)
Signal(sig, payload) == [sig |-> sig, data |-> payload]

Emit(sig, payload) ==
    /\ emitted' = IF Len(emitted) < MaxLog /\ ~streaming
                  THEN Append(emitted, Signal(sig, payload))
                  ELSE emitted
    /\ errors' = IF sig = "error" THEN Saturate(errors) ELSE errors
    /\ cleanups' = IF sig = "cleanup" THEN Saturate(cleanups) ELSE cleanups
    /\ lateSignal' = (lateSignal \/ (sig # "cleanup" /\ cleanups > 0))
    /\ afterStop' = IF sig # "cleanup" /\ ~program THEN Saturate(afterStop) ELSE afterStop

NoEmit == UNCHANGED <<emitted, errors, cleanups, lateSignal, afterStop>>

(***************************************************************************)
(* src/main.py : threadingSetup, after toggleSerial opened the connection: *)
(* a fresh lock and worker, the thread started, serialOn set.              *)
(***************************************************************************)
WorkerInit ==
    /\ program = TRUE
    /\ error = FALSE
    /\ received = <<>>
    /\ line = <<>>
    /\ wpc = "top"
    /\ mutex = "free"
    /\ gpc = "idle"
    /\ serialOn = TRUE
    /\ isOpen = TRUE
    /\ deviceOk = TRUE
    /\ inbound = <<>>
    /\ sent = 0
    /\ sendCalls = 0
    /\ wire = <<>>
    /\ writeFails = 0
    /\ readFails = 0
    /\ emitted = <<>>
    /\ errors = 0
    /\ cleanups = 0
    /\ lateSignal = FALSE
    /\ streaming = FALSE
    /\ reads = <<>>
    /\ afterStop = 0

(***************************************************************************)
(* QMutex.tryLock(): succeeds exactly when nobody holds the mutex          *)
(***************************************************************************)
tryLock_Always(m) == TRUE

tryLock(m) == m = "free"

(***************************************************************************)
(* SerialWorker.run: "while self.program" - the loop goes on while the     *)
(* flag is set, in degraded mode too                                       *)
(***************************************************************************)
LoopContinues_OrError(prog, err) == prog \/ err

LoopContinues(prog, err) == prog

\* the value run() gives its flag error in the except branch
ErrorAfterRaise_Unset == FALSE

ErrorAfterRaise == TRUE

(***************************************************************************)
(* SerialWorker.run, top of the loop: test self.program; leave the loop    *)
(* and emit cleanup when it is cleared.                                    *)
(***************************************************************************)
RunTop_Drains ==
    /\ wpc = "top"
    /\ IF LoopContinues(program, error) \/ inbound # <<>>
       THEN /\ wpc' = "try"
            /\ NoEmit
       ELSE /\ wpc' = "done"
            /\ Emit("cleanup", <<>>)
    /\ UNCHANGED <<reads, streaming, program, error, received, line, mutex, gpc, serialOn, isOpen,
                   deviceOk, inbound, sent, sendCalls, wire, writeFails, readFails>>

RunTop ==
    /\ wpc = "top"
    /\ IF LoopContinues(program, error)
       THEN /\ wpc' = "try"
            /\ NoEmit
       ELSE /\ wpc' = "done"
            /\ Emit("cleanup", <<>>)
    /\ UNCHANGED <<reads, streaming, program, error, received, line, mutex, gpc, serialOn, isOpen,
                   deviceOk, inbound, sent, sendCalls, wire, writeFails, readFails>>

(***************************************************************************)
(* SerialWorker.run: "if not error: if self.mutex.tryLock():" - in         *)
(* degraded mode, or when the lock is taken, back to the top of the loop.  *)
(***************************************************************************)
RunTryLock_NoGate ==
    /\ wpc = "try"
    /\ IF tryLock(mutex)
       THEN /\ mutex' = "worker"
            /\ wpc' = "read"
            /\ line' = <<>>
       ELSE /\ wpc' = "top"
            /\ UNCHANGED <<mutex, line>>
    /\ NoEmit
    /\ UNCHANGED <<reads, streaming, program, error, received, gpc, serialOn, isOpen,
                   deviceOk, inbound, sent, sendCalls, wire, writeFails, readFails>>

RunTryLock ==
    /\ wpc = "try"
    /\ IF ~error /\ tryLock(mutex)
       THEN /\ mutex' = "worker"
            /\ wpc' = "read"
            /\ line' = <<>>
       ELSE /\ wpc' = "top"
            /\ UNCHANGED <<mutex, line>>
    /\ NoEmit
    /\ UNCHANGED <<reads, streaming, program, error, received, gpc, serialOn, isOpen,
                   deviceOk, inbound, sent, sendCalls, wire, writeFails, readFails>>

(***************************************************************************)
(* The end of the try statement of run(): readEolLine returned the bytes   *)
(* l, which are decoded, or raised.                                        *)
(***************************************************************************)
ReadRaised ==
    /\ Emit("error", <<>>)
    /\ error' = ErrorAfterRaise
    /\ received' = <<>>
    /\ readFails' = Saturate(readFails)
    /\ wpc' = "hold"
    /\ UNCHANGED reads

ReadReturned(l) ==
    IF \E i \in 1..Len(l) : l[i] = NON_ASCII
    THEN ReadRaised
    ELSE /\ received' = l
         /\ reads' = IF l # <<>> /\ Len(emitted) < MaxLog /\ ~streaming
                     THEN Append(reads, l)
                     ELSE reads
         /\ wpc' = "hold"
         /\ NoEmit
         /\ UNCHANGED <<error, readFails>>

(***************************************************************************)
(* SerialComm.readEolLine, one connection.read(1): it raises               *)
(* SerialException on a closed port or a lost device, returns the next     *)
(* byte when one is there, and returns nothing when the 50 ms timeout      *)
(* passes without a byte.                                                  *)
(***************************************************************************)
ReadByte ==
    /\ wpc = "read"
    /\ IF ~isOpen \/ ~deviceOk
       THEN /\ ReadRaised
            /\ UNCHANGED <<line, inbound>>
       ELSE /\ inbound # <<>>
            /\ inbound' = Tail(inbound)
            /\ line' = AppendByte(line, Head(inbound))
            /\ IF Head(inbound) = LF
               THEN ReadReturned(line')
               ELSE /\ NoEmit
                    /\ UNCHANGED <<error, received, readFails, wpc, reads>>
    /\ UNCHANGED <<streaming, program, mutex, gpc, serialOn, isOpen, deviceOk, sent,
                   sendCalls, wire, writeFails>>

ReadTimeout ==
    /\ wpc = "read"
    /\ isOpen /\ deviceOk
    /\ inbound = <<>>
    /\ ReadReturned(line)
    /\ UNCHANGED <<streaming, program, line, mutex, gpc, serialOn, isOpen, deviceOk, inbound,
                   sent, sendCalls, wire, writeFails>>

(***************************************************************************)
(* SerialWorker.run: time.sleep(0.05) with the lock held, then unlock      *)
(***************************************************************************)
RunUnlock_NotOnRaise ==
    /\ wpc = "hold"
    /\ mutex' = IF error THEN mutex ELSE "free"
    /\ wpc' = "gap"
    /\ NoEmit
    /\ UNCHANGED <<reads, streaming, program, error, received, line, gpc, serialOn, isOpen,
                   deviceOk, inbound, sent, sendCalls, wire, writeFails, readFails>>

RunUnlock ==
    /\ wpc = "hold"
    /\ mutex' = "free"
    /\ wpc' = "gap"
    /\ NoEmit
    /\ UNCHANGED <<reads, streaming, program, error, received, line, gpc, serialOn, isOpen,
                   deviceOk, inbound, sent, sendCalls, wire, writeFails, readFails>>

(***************************************************************************)
(* SerialWorker.run: time.sleep(0.02), then "if not received: continue",   *)
(* else msg.emit(received)                                                 *)
(***************************************************************************)
RunEmit_Always ==
    /\ wpc = "gap"
    /\ wpc' = "top"
    /\ Emit("msg", received)
    /\ UNCHANGED <<reads, streaming, program, error, received, line, mutex, gpc, serialOn, isOpen,
                   deviceOk, inbound, sent, sendCalls, wire, writeFails, readFails>>

RunEmit ==
    /\ wpc = "gap"
    /\ wpc' = "top"
    /\ IF received = <<>> THEN NoEmit ELSE Emit("msg", received)
    /\ UNCHANGED <<reads, streaming, program, error, received, line, mutex, gpc, serialOn, isOpen,
                   deviceOk, inbound, sent, sendCalls, wire, writeFails, readFails>>

(***************************************************************************)
(* src/main.py : sendMessage -> SerialWorker.sendToggle, on the operator   *)
(* thread.  The call spins on tryLock until it has the lock.               *)
(***************************************************************************)
sendMessage ==
    /\ gpc = "idle"
    /\ serialOn
    /\ sendCalls < MaxSends
    /\ sendCalls' = sendCalls + 1
    /\ gpc' = "spin"
    /\ NoEmit
    /\ UNCHANGED <<reads, streaming, program, error, received, line, wpc, mutex, serialOn, isOpen,
                   deviceOk, inbound, sent, wire, writeFails, readFails>>

sendToggleLock_NoRetry ==
    /\ gpc = "spin"
    /\ IF tryLock(mutex)
       THEN /\ mutex' = "gui"
            /\ gpc' = "write"
       ELSE /\ gpc' = "idle"
            /\ UNCHANGED mutex
    /\ NoEmit
    /\ UNCHANGED <<reads, streaming, program, error, received, line, wpc, serialOn, isOpen,
                   deviceOk, inbound, sent, sendCalls, wire, writeFails, readFails>>

sendToggleLock ==
    /\ gpc = "spin"
    /\ tryLock(mutex)
    /\ mutex' = "gui"
    /\ gpc' = "write"
    /\ NoEmit
    /\ UNCHANGED <<reads, streaming, program, error, received, line, wpc, serialOn, isOpen,
                   deviceOk, inbound, sent, sendCalls, wire, writeFails, readFails>>

(***************************************************************************)
(* SerialComm.sendMessage: a closed port is opened first (outside the try: *)
(* a SerialException from open() leaves sendToggle with the lock held);    *)
(* then write; a SerialException from write gives the return value False,  *)
(* which sendToggle does not look at.                                      *)
(***************************************************************************)
SerialCommSendMessage ==
    /\ gpc = "write"
    /\ IF ~isOpen /\ ~deviceOk
       THEN /\ gpc' = "raised"
            /\ UNCHANGED <<wire, writeFails, isOpen>>
       ELSE /\ isOpen' = TRUE
            /\ IF deviceOk
               THEN /\ wire' = Append(wire, sendCalls)
                    /\ UNCHANGED writeFails
               ELSE /\ writeFails' = writeFails + 1
                    /\ UNCHANGED wire
            /\ gpc' = "unlock"
    /\ NoEmit
    /\ UNCHANGED <<reads, streaming, program, error, received, line, wpc, mutex, serialOn,
                   deviceOk, inbound, sent, sendCalls, readFails>>

sendToggleUnlock ==
    /\ gpc = "unlock"
    /\ mutex' = "free"
    /\ gpc' = "idle"
    /\ NoEmit
    /\ UNCHANGED <<reads, streaming, program, error, received, line, wpc, serialOn, isOpen,
                   deviceOk, inbound, sent, sendCalls, wire, writeFails, readFails>>

(***************************************************************************)
(* src/main.py : toggleSerial (branch "elif self.serialOn") and            *)
(* closeEvent: clear the running flag, sleep 0.1 s, close the connection.  *)
(***************************************************************************)
toggleSerialStop ==
    /\ gpc = "idle"
    /\ serialOn
    /\ serialOn' = FALSE
    /\ program' = FALSE
    /\ gpc' = "stop_sleep"
    /\ NoEmit
    /\ UNCHANGED <<reads, streaming, error, received, line, wpc, mutex, isOpen, deviceOk, inbound,
                   sent, sendCalls, wire, writeFails, readFails>>

toggleSerialClose ==
    /\ gpc = "stop_sleep"
    /\ isOpen' = FALSE
    /\ gpc' = "idle"
    /\ NoEmit
    /\ UNCHANGED <<reads, streaming, program, error, received, line, wpc, mutex, serialOn, deviceOk,
                   inbound, sent, sendCalls, wire, writeFails, readFails>>

(***************************************************************************)
(* The device: it sends a byte, or is lost (unplugged).  DeviceStream is    *)
(* the device that never pauses: once it has sent MaxBytes bytes, the next *)
(* character (never a line feed) arrives before the pending read(1) times  *)
(* out.  The log emitted records the signals up to that point.             *)
(***************************************************************************)
DeviceSend ==
    /\ isOpen /\ deviceOk
    /\ sent < MaxBytes
    /\ Len(inbound) < MaxBuf
    /\ \E b \in Bytes : inbound' = Append(inbound, b)
    /\ sent' = sent + 1
    /\ NoEmit
    /\ UNCHANGED <<reads, streaming, program, error, received, line, wpc, mutex, gpc, serialOn, isOpen,
                   deviceOk, sendCalls, wire, writeFails, readFails>>

DeviceStream ==
    /\ isOpen /\ deviceOk
    /\ sent = MaxBytes
    /\ wpc = "read" /\ inbound = <<>>
    /\ inbound' = Append(inbound, CHAR)
    /\ streaming' = TRUE
    /\ NoEmit
    /\ UNCHANGED <<reads, program, error, received, line, wpc, mutex, gpc, serialOn, isOpen,
                   deviceOk, sent, sendCalls, wire, writeFails, readFails>>

DeviceFail ==
    /\ deviceOk
    /\ deviceOk' = FALSE
    /\ NoEmit
    /\ UNCHANGED <<reads, streaming, program, error, received, line, wpc, mutex, gpc, serialOn, isOpen,
                   inbound, sent, sendCalls, wire, writeFails, readFails>>

WorkerThread == RunTop \/ RunTryLock \/ ReadByte \/ ReadTimeout \/ RunUnlock \/ RunEmit

(***************************************************************************)
(* Text.  A Python str is a sequence of one-character strings.             *)
(***************************************************************************)
NL == "\n"
VALVE_TAG == <<"T", "o", "g", "g", "l", "e", " ", "P", "I", "N">>
VALVE_SEP == <<" ">>
PRESSURE_SEP == <<",", " ">>
SV == <<"S", "V">>
PT == <<"P", "T">>
OPEN_TEXT == <<"O", "P", "E", "N">>
CLOSE_TEXT == <<"C", "L", "O", "S", "E">>
NA_TEXT == <<"N", "/", "A">>

Digits == <<"0", "1", "2", "3", "4", "5", "6", "7", "8", "9">>
IsDigit(c) == \E d \in 1..10 : Digits[d] = c
DigitVal(c) == (CHOOSE d \in 1..10 : Digits[d] = c) - 1
Whitespace == {" ", NL, "\r", "\t"}

\* "sub in s"
Contains(s, sub) ==
    \E i \in 1..(Len(s) - Len(sub) + 1) : SubSeq(s, i, i + Len(sub) - 1) = sub

\* s.strip(chars): drop the characters of the set cs at both ends
RECURSIVE LStrip(_, _)
LStrip(s, cs) ==
    IF s # <<>> /\ Head(s) \in cs THEN LStrip(Tail(s), cs) ELSE s

RECURSIVE RStrip(_, _)
RStrip(s, cs) ==
    IF s # <<>> /\ s[Len(s)] \in cs THEN RStrip(SubSeq(s, 1, Len(s) - 1), cs) ELSE s

Strip(s, cs) == RStrip(LStrip(s, cs), cs)

CharsOf(s) == {s[i] : i \in 1..Len(s)}

\* s.split(sep): cut at every occurrence of sep, left to right
Split_Once(s, sep) ==
    IF \E k \in 1..(Len(s) - Len(sep) + 1) : SubSeq(s, k, k + Len(sep) - 1) = sep
    THEN LET i == CHOOSE k \in 1..(Len(s) - Len(sep) + 1) :
                    /\ SubSeq(s, k, k + Len(sep) - 1) = sep
                    /\ \A j \in 1..(k - 1) : SubSeq(s, j, j + Len(sep) - 1) # sep
         IN  <<SubSeq(s, 1, i - 1), SubSeq(s, i + Len(sep), Len(s))>>
    ELSE <<s>>

RECURSIVE Split(_, _)
Split(s, sep) ==
    IF ~Contains(s, sep) THEN <<s>>
    ELSE LET i == CHOOSE k \in 1..(Len(s) - Len(sep) + 1) :
                    /\ SubSeq(s, k, k + Len(sep) - 1) = sep
                    /\ \A j \in 1..(k - 1) : SubSeq(s, j, j + Len(sep) - 1) # sep
         IN  <<SubSeq(s, 1, i - 1)>> \o Split(SubSeq(s, i + Len(sep), Len(s)), sep)

\* int(s) for a stripped s: an optional sign and at least one digit
IsInt(s) ==
    LET body == IF s # <<>> /\ s[1] \in {"-", "+"} THEN Tail(s) ELSE s
    IN  body # <<>> /\ \A i \in 1..Len(body) : IsDigit(body[i])

RECURSIVE NatVal(_)
NatVal(s) == IF s = <<>> THEN 0 ELSE 10 * NatVal(SubSeq(s, 1, Len(s) - 1)) + DigitVal(s[Len(s)])

IntVal_Truthy(s) == 1

IntVal(s) ==
    IF s[1] = "-" THEN 0 - NatVal(Tail(s))
    ELSE IF s[1] = "+" THEN NatVal(Tail(s)) ELSE NatVal(s)

\* str(n) for the small positive n of a sensor index
StrOfIndex(n) == IF n < 10 THEN <<Digits[n + 1]>> ELSE <<Digits[(n \div 10) + 1], Digits[(n % 10) + 1]>>

(***************************************************************************)
(* src/main.py : SAFE_PRESS = range(-1000, 400), MID_PRESS = range(401,    *)
(* 501) and the colour chosen by updateDisplay                             *)
(***************************************************************************)
SAFE_PRESS == (0 - 1000)..399
MID_PRESS == 401..500

Band_NoMid(r) ==
    IF r \in SAFE_PRESS THEN "PRESS_GREEN" ELSE "PRESS_RED"

Band(r) ==
    IF r \in SAFE_PRESS THEN "PRESS_GREEN"
    ELSE IF r \in MID_PRESS THEN "PRESS_YELLOW"
    ELSE "PRESS_RED"

(***************************************************************************)
(* src/main.py : createWireDiagram - the labels SV1..SV9 and PT1..PT4      *)
(***************************************************************************)
LabelNames == {SV \o StrOfIndex(i) : i \in 1..9} \cup {PT \o StrOfIndex(i) : i \in 1..4}

ParseInit ==
    /\ dynamicLabels = [k \in LabelNames |->
            IF SubSeq(k, 1, 2) = SV THEN [text |-> CLOSE_TEXT, style |-> "SV_CSS"]
            ELSE [text |-> NA_TEXT, style |-> "PRESS_GREEN"]]
    /\ string = <<>>
    /\ data = <<>>
    /\ dpc = "idle"
    /\ parseRaised = FALSE

(***************************************************************************)
(* src/main.py : RocketDisplayWindow.parseData.  The result is the list of *)
(* (destination, value) pairs; raised tells that the unpacking             *)
(* "pin, value = ..." met a list that has not exactly two parts.           *)
(***************************************************************************)
Pair(dest, value) == [dest |-> dest, value |-> value]

parseData_PressureFirst(d) ==
    IF Contains(d, PRESSURE_SEP)
    THEN LET parts == Split(d, PRESSURE_SEP)
         IN  [raised |-> FALSE,
              list |-> [i \in 1..Len(parts) |-> Pair(PT \o StrOfIndex(i), parts[i])]]
    ELSE IF Contains(d, VALVE_TAG)
    THEN LET parts == Split(Strip(d, CharsOf(VALVE_TAG)), VALVE_SEP)
         IN  IF Len(parts) # 2
             THEN [raised |-> TRUE, list |-> <<>>]
             ELSE [raised |-> FALSE, list |-> <<Pair(SV \o parts[1], parts[2])>>]
    ELSE [raised |-> FALSE, list |-> <<>>]

parseData(d) ==
    IF Contains(d, VALVE_TAG)
    THEN LET parts == Split(Strip(d, CharsOf(VALVE_TAG)), VALVE_SEP)
         IN  IF Len(parts) # 2
             THEN [raised |-> TRUE, list |-> <<>>]
             ELSE [raised |-> FALSE, list |-> <<Pair(SV \o parts[1], parts[2])>>]
    ELSE IF Contains(d, PRESSURE_SEP)
    THEN LET parts == Split(d, PRESSURE_SEP)
         IN  [raised |-> FALSE,
              list |-> [i \in 1..Len(parts) |-> Pair(PT \o StrOfIndex(i), parts[i])]]
    ELSE [raised |-> FALSE, list |-> <<>>]

(***************************************************************************)
(* src/main.py : RocketDisplayWindow.updateDisplay, from element i of the  *)
(* dataset on.  int() of a valve status that is no number raises           *)
(* ValueError, which only the PT branch catches (and then returns); a      *)
(* KeyError (no such label) skips the element.                             *)
(***************************************************************************)
RECURSIVE updateDisplay(_, _, _)
updateDisplay(dataset, i, labels) ==
    IF i > Len(dataset) THEN [raised |-> FALSE, labels |-> labels]
    ELSE LET dest == dataset[i].dest
             value == Strip(dataset[i].value, Whitespace)
         IN  IF Contains(dest, SV)
             THEN IF ~IsInt(value) THEN [raised |-> TRUE, labels |-> labels]
                  ELSE IF dest \notin DOMAIN labels THEN updateDisplay(dataset, i + 1, labels)
                  ELSE updateDisplay(dataset, i + 1,
                         [labels EXCEPT ![dest] =
                            IF IntVal(value) # 0
                            THEN [text |-> OPEN_TEXT, style |-> "VALVE_ON"]
                            ELSE [text |-> CLOSE_TEXT, style |-> "TEXT"]])
             ELSE IF Contains(dest, PT)
             THEN IF ~IsInt(value) THEN [raised |-> FALSE, labels |-> labels]
                  ELSE IF dest \notin DOMAIN labels THEN updateDisplay(dataset, i + 1, labels)
                  ELSE updateDisplay(dataset, i + 1,
                         [labels EXCEPT ![dest] =
                            [text |-> value, style |-> Band(IntVal(value))]])
             ELSE updateDisplay(dataset, i + 1, labels)

(***************************************************************************)
(* The inbound lines of the model: "Toggle PIN3" followed by up to MaxRest *)
(* characters, and up to MaxParts values joined by ", ", with or without   *)
(* the final line feed.                                                    *)
(***************************************************************************)
RestChars == {" ", ",", "0", "1", "x", NL}
Words(alphabet, n) == UNION {[1..k -> alphabet] : k \in 0..n}

PressureValues == {<<"1", "0">>, <<"2", "0", "0">>, <<"4", "5", "0">>, <<"x">>}

RECURSIVE Join(_, _)
Join(parts, sep) ==
    IF Len(parts) = 1 THEN parts[1]
    ELSE parts[1] \o sep \o Join(Tail(parts), sep)

ValveLines == {VALVE_TAG \o <<"3">> \o w : w \in Words(RestChars, MaxRest)}
PressureLines ==
    {Join(ps, PRESSURE_SEP) \o e :
        ps \in UNION {[1..k -> PressureValues] : k \in 1..MaxParts}, e \in {<<>>, <<NL>>}}
Lines == ValveLines \cup PressureLines

(***************************************************************************)
(* src/main.py : RocketDisplayWindow.displayControl, the slot of the msg   *)
(* signal: data = self.parseData(string), then self.updateDisplay(data).   *)
(* The locals are gone when the slot returns.                              *)
(***************************************************************************)
displayControl ==
    /\ dpc = "idle"
    /\ ~parseRaised
    /\ \E l \in Lines :
        /\ string' = l
        /\ IF parseData(l).raised
           THEN /\ parseRaised' = TRUE
                /\ UNCHANGED <<data, dpc>>
           ELSE /\ data' = parseData(l).list
                /\ dpc' = "parsed"
                /\ UNCHANGED parseRaised
    /\ UNCHANGED dynamicLabels

displayControlUpdate ==
    /\ dpc = "parsed"
    /\ LET r == updateDisplay(data, 1, dynamicLabels)
       IN  /\ dynamicLabels' = r.labels
           /\ parseRaised' = r.raised
           /\ IF r.raised
              THEN UNCHANGED <<string, data, dpc>>
              ELSE /\ string' = <<>>
                   /\ data' = <<>>
                   /\ dpc' = "idle"

(***************************************************************************)
(* src/main.py : COMMAND_LEN, MSG_PAD = lambda x: x + "0" * (8 - len(x)).  *)
(* "0" * n is the empty string when n <= 0.                                *)
(***************************************************************************)
COMMAND_LEN == 8

Repeat(c, n) == [i \in 1..n |-> c]

MSG_PAD(x) == x \o Repeat("0", 8 - Len(x))

(***************************************************************************)
(* SerialWorker.sendToggle, the message it builds: pins + "\n", the        *)
(* worker's own pins ("" in threadingSetup) when the argument is empty.    *)
(***************************************************************************)
WorkerPins == <<>>

SendToggleMessage(pins) ==
    IF pins # <<>> THEN pins \o <<NL>> ELSE WorkerPins \o <<NL>>

(***************************************************************************)
(* The texts the operator types into the entry line: the first k of the    *)
(* characters below (no character twice), the same with the first          *)
(* character typed once more, and "13".                                    *)
(***************************************************************************)
PinChars == <<"1", "2", "3", "4", "5", "6", "7", "8", "9", "a", "b", "c">>

EntryTexts ==
    {SubSeq(PinChars, 1, k) : k \in 0..MaxCommand}
        \cup {SubSeq(PinChars, 1, k) \o <<PinChars[1]>> : k \in 1..(MaxCommand - 1)}
        \cup {<<"1", "3">>}

SendInit ==
    /\ serialEntry = <<>>
    /\ command = <<>>
    /\ message = <<>>
    /\ confBox = "none"

\* the operator edits the entry line
editEntry ==
    /\ \E t \in EntryTexts : serialEntry' = t
    /\ UNCHANGED <<command, message, confBox>>

(***************************************************************************)
(* src/main.py : RocketDisplayWindow.sendMessage(command), up to the call  *)
(* of sendToggle: an empty (or missing) command is replaced by the text of *)
(* the entry line; a command with a repeated character is refused with a   *)
(* warning box; otherwise MSG_PAD(command) goes to sendToggle.  Without    *)
(* "self.serialSet and self.serialOn" the call only shows the error box.   *)
(***************************************************************************)
sendMessageOf_OnOnly(cmd) ==
    IF linkOn
    THEN LET c == IF cmd = <<>> THEN serialEntry ELSE cmd
         IN  IF Cardinality(CharsOf(c)) < Len(c)
             THEN /\ confBox' = "Serial Message Warning"
                  /\ UNCHANGED <<serialEntry, command, message>>
             ELSE /\ command' = c
                  /\ message' = SendToggleMessage(MSG_PAD(c))
                  /\ confBox' = "none"
                  /\ UNCHANGED serialEntry
    ELSE /\ confBox' = "Serial Error"
         /\ UNCHANGED <<serialEntry, command, message>>

sendMessageOf(cmd) ==
    IF serialSet /\ linkOn
    THEN LET c == IF cmd = <<>> THEN serialEntry ELSE cmd
         IN  IF Cardinality(CharsOf(c)) < Len(c)
             THEN /\ confBox' = "Serial Message Warning"
                  /\ UNCHANGED <<serialEntry, command, message>>
             ELSE /\ command' = c
                  /\ message' = SendToggleMessage(MSG_PAD(c))
                  /\ confBox' = "none"
                  /\ UNCHANGED serialEntry
    ELSE /\ confBox' = "Serial Error"
         /\ UNCHANGED <<serialEntry, command, message>>

\* the button "Send": clicked passes no command
sendEntry == lpc = "idle" /\ sendMessageOf(<<>>)

\* the buttons SV1 .. SV9: sendMessage(num)
sendPin == lpc = "idle" /\ \E i \in 1..9 : sendMessageOf(StrOfIndex(i))

(***************************************************************************)
(* src/main.py : updateDisplay, the colour of one integer reading          *)
BandInit ==
    /\ reading = 0
    /\ style = "none"

\* the next reading arrives: the pressure has moved by one of these steps
ReadingSteps == {0 - 50, 0 - 1, 1, 50}

newReading ==
    /\ \E d \in ReadingSteps :
        /\ reading + d \in (0 - MaxReading)..MaxReading
        /\ reading' = reading + d
    /\ style' = "none"

\* "if reading in SAFE_PRESS: ... elif reading in MID_PRESS: ... else: ..."
setPressureStyle ==
    /\ style = "none"
    /\ style' = Band(reading)
    /\ UNCHANGED reading

(***************************************************************************)
(* src/main.py : the serial link of RocketDisplayWindow, across starts and *)
(* stops.  Each start makes a new connection, QThread, QMutex and          *)
(* SerialWorker; the worker made before keeps the connection it was given. *)
(* Of a worker's run only what the window can see is followed: it is in    *)
(* its loop and reading ("loop"), in its loop and not reading any more     *)
(* ("degraded", after error.emit()), or out of the loop ("done", cleanup   *)
(* emitted).                                                               *)
(***************************************************************************)
NO_BOX == "none"
BOX_NOT_ESTABLISHED == "Serial connection could not be established."
BOX_NOT_CONFIGURED == "Serial settings not configured."
BOX_ERROR_DETECTED == "Serial error detected! Please try again."

LinkInit ==
    /\ serialSet = FALSE
    /\ linkOn = FALSE
    /\ workers = <<>>
    /\ lpc = "idle"
    /\ pendingErrors = 0
    /\ linkBox = NO_BOX
    /\ deviceUp = TRUE

(***************************************************************************)
(* SerialComm.__init__: serial.Serial(port, baudrate, timeout=0.05) opens  *)
(* the port and raises SerialException if the device cannot be opened.     *)
(***************************************************************************)
SerialCommInit(up) ==
    IF up THEN [raised |-> FALSE, is_open |-> TRUE]
    ELSE [raised |-> TRUE, is_open |-> FALSE]

(***************************************************************************)
(* setupConnection(port, baud): opens the link, "fails with                *)
(* ConnectionError if the device cannot be opened"; the result is the      *)
(* SerialComm of the port.                                                 *)
(***************************************************************************)
setupConnection(up) == SerialCommInit(up)

(***************************************************************************)
(* threadingSetup: a new SerialWorker (program = True) on a new thread,    *)
(* started at once.                                                        *)
(***************************************************************************)
threadingSetup(ws, conn) ==
    Append(ws, [program |-> TRUE, pos |-> "loop", is_open |-> conn.is_open])

(***************************************************************************)
(* The body of toggleSerial, box the message of the box open before it.    *)
(* The stop branch is left at time.sleep(0.1).                             *)
(***************************************************************************)
toggleSerialFrom_OnFirst(box) ==
    IF serialSet /\ ~linkOn
    THEN LET conn == setupConnection(deviceUp)
         IN  /\ linkOn' = TRUE
             /\ IF conn.raised
                THEN /\ linkBox' = BOX_NOT_ESTABLISHED
                     /\ UNCHANGED <<workers, lpc>>
                ELSE /\ Len(workers) < MaxStarts
                     /\ workers' = threadingSetup(workers, conn)
                     /\ linkBox' = box
                     /\ UNCHANGED lpc
    ELSE IF linkOn
    THEN /\ linkOn' = FALSE
         /\ workers' = [workers EXCEPT ![Len(workers)].program = FALSE]
         /\ lpc' = "stop_sleep"
         /\ linkBox' = box
    ELSE /\ linkBox' = BOX_NOT_CONFIGURED
         /\ UNCHANGED <<linkOn, workers, lpc>>

toggleSerialFrom(box) ==
    IF serialSet /\ ~linkOn
    THEN LET conn == setupConnection(deviceUp)
         IN  IF conn.raised
             THEN /\ linkBox' = BOX_NOT_ESTABLISHED
                  /\ UNCHANGED <<linkOn, workers, lpc>>
             ELSE /\ Len(workers) < MaxStarts
                  /\ workers' = threadingSetup(workers, conn)
                  /\ linkOn' = TRUE
                  /\ linkBox' = box
                  /\ UNCHANGED lpc
    ELSE IF linkOn
    THEN /\ linkOn' = FALSE
         /\ workers' = [workers EXCEPT ![Len(workers)].program = FALSE]
         /\ lpc' = "stop_sleep"
         /\ linkBox' = box
    ELSE /\ linkBox' = BOX_NOT_CONFIGURED
         /\ UNCHANGED <<linkOn, workers, lpc>>

\* the operator clicks the serial toggle button
toggleSerial ==
    /\ lpc = "idle"
    /\ toggleSerialFrom(linkBox)
    /\ UNCHANGED <<serialSet, pendingErrors, deviceUp>>

\* the stop branch after the sleep: "if self.serial.connection.is_open:
\* self.serial.close()"
toggleSerialAfterSleep ==
    /\ lpc = "stop_sleep"
    /\ workers' = [workers EXCEPT ![Len(workers)].is_open = FALSE]
    /\ lpc' = "idle"
    /\ UNCHANGED <<serialSet, linkOn, pendingErrors, linkBox, deviceUp>>

\* the slot of the error signal: a box, then toggleSerial
serialError ==
    /\ lpc = "idle"
    /\ pendingErrors > 0
    /\ pendingErrors' = pendingErrors - 1
    /\ toggleSerialFrom(BOX_ERROR_DETECTED)
    /\ UNCHANGED <<serialSet, deviceUp>>

\* setupSerial: the two dialogs were accepted (ok) or one was cancelled
setupSerial ==
    /\ lpc = "idle"
    /\ \E ok \in BOOLEAN : serialSet' = ok
    /\ UNCHANGED <<linkOn, workers, pendingErrors, linkBox, deviceUp>>
    /\ UNCHANGED lpc

(***************************************************************************)
(* SerialWorker.run of worker w, as far as the window sees it: a read on a *)
(* closed connection or a lost device raises, the worker emits error and   *)
(* reads no more; with program cleared the worker leaves the loop.         *)
(***************************************************************************)
runReadRaises(w) ==
    /\ workers[w].pos = "loop"
    /\ ~workers[w].is_open \/ ~deviceUp
    /\ workers' = [workers EXCEPT ![w].pos = "degraded"]
    /\ pendingErrors' = pendingErrors + 1
    /\ UNCHANGED <<serialSet, linkOn, lpc, linkBox, deviceUp>>

runLeavesLoop(w) ==
    /\ workers[w].pos \in {"loop", "degraded"}
    /\ ~workers[w].program
    /\ workers' = [workers EXCEPT ![w].pos = "done"]
    /\ UNCHANGED <<serialSet, linkOn, lpc, pendingErrors, linkBox, deviceUp>>

runStep == \E w \in DOMAIN workers : runReadRaises(w) \/ runLeavesLoop(w)

\* the device is unplugged or plugged in again
devicePlug ==
    /\ deviceUp' = ~deviceUp
    /\ UNCHANGED <<serialSet, linkOn, workers, lpc, pendingErrors, linkBox>>

(***************************************************************************)
(***************************************************************************)
(* Specifications                                                          *)
(***************************************************************************)
Init ==
    /\ ProcInit /\ MainStageInit /\ GuiInit /\ WorkerInit /\ ParseInit
    /\ SendInit /\ BandInit /\ LinkInit

ProcNext ==
    \/ UpdateStage /\ UNCHANGED <<stageVars, workerVars, parseVars, sendVars, bandVars, linkVars>>
    \/ UpdateTask /\ UNCHANGED <<stageVars, workerVars, parseVars, sendVars, bandVars, linkVars>>
    \/ ChangeStatus /\ UNCHANGED <<stageVars, workerVars, parseVars, sendVars, bandVars, linkVars>>

SpecProc == Init /\ [][ProcNext]_vars

StageNext ==
    \/ updateStage /\ UNCHANGED <<procVars, guiVars, workerVars, parseVars, sendVars, bandVars, linkVars>>
    \/ previousStage /\ UNCHANGED <<procVars, guiVars, workerVars, parseVars, sendVars, bandVars, linkVars>>
    \/ abortOverpressure /\ UNCHANGED <<procVars, guiVars, workerVars, parseVars, sendVars, bandVars, linkVars>>
    \/ abortIgnitionFail /\ UNCHANGED <<procVars, guiVars, workerVars, parseVars, sendVars, bandVars, linkVars>>
    \/ countDown /\ UNCHANGED <<procVars, guiVars, workerVars, parseVars, sendVars, bandVars, linkVars>>
    \/ countSecond /\ UNCHANGED <<procVars, guiVars, workerVars, parseVars, sendVars, bandVars, linkVars>>
    \/ _advanceState /\ UNCHANGED <<procVars, mainStageVars, workerVars, parseVars, sendVars, bandVars, linkVars>>
    \/ _abortMission /\ UNCHANGED <<procVars, mainStageVars, workerVars, parseVars, sendVars, bandVars, linkVars>>
    \/ _countSecond /\ UNCHANGED <<procVars, mainStageVars, workerVars, parseVars, sendVars, bandVars, linkVars>>

SpecStage == Init /\ [][StageNext]_vars

WorkerNext ==
    \/ RunTop /\ UNCHANGED <<procVars, stageVars, parseVars, sendVars, bandVars, linkVars>>
    \/ RunTryLock /\ UNCHANGED <<procVars, stageVars, parseVars, sendVars, bandVars, linkVars>>
    \/ ReadByte /\ UNCHANGED <<procVars, stageVars, parseVars, sendVars, bandVars, linkVars>>
    \/ ReadTimeout /\ UNCHANGED <<procVars, stageVars, parseVars, sendVars, bandVars, linkVars>>
    \/ RunUnlock /\ UNCHANGED <<procVars, stageVars, parseVars, sendVars, bandVars, linkVars>>
    \/ RunEmit /\ UNCHANGED <<procVars, stageVars, parseVars, sendVars, bandVars, linkVars>>
    \/ sendMessage /\ UNCHANGED <<procVars, stageVars, parseVars, sendVars, bandVars, linkVars>>
    \/ sendToggleLock /\ UNCHANGED <<procVars, stageVars, parseVars, sendVars, bandVars, linkVars>>
    \/ SerialCommSendMessage /\ UNCHANGED <<procVars, stageVars, parseVars, sendVars, bandVars, linkVars>>
    \/ sendToggleUnlock /\ UNCHANGED <<procVars, stageVars, parseVars, sendVars, bandVars, linkVars>>
    \/ toggleSerialStop /\ UNCHANGED <<procVars, stageVars, parseVars, sendVars, bandVars, linkVars>>
    \/ toggleSerialClose /\ UNCHANGED <<procVars, stageVars, parseVars, sendVars, bandVars, linkVars>>
    \/ DeviceSend /\ UNCHANGED <<procVars, stageVars, parseVars, sendVars, bandVars, linkVars>>
    \/ DeviceFail /\ UNCHANGED <<procVars, stageVars, parseVars, sendVars, bandVars, linkVars>>

SpecWorker == Init /\ [][WorkerNext]_vars

(***************************************************************************)
(* FairWorker: the device may stream without end.  The worker thread and   *)
(* the operator thread keep running (weak fairness of their steps); the    *)
(* operator's tryLock loop spins without pause, so it takes the lock if    *)
(* the lock is free again and again (strong fairness).                     *)
(***************************************************************************)
FairWorkerNext ==
    \/ WorkerNext
    \/ DeviceStream /\ UNCHANGED <<procVars, stageVars, parseVars, sendVars, bandVars, linkVars>>

FairWorker ==
    /\ Init
    /\ [][FairWorkerNext]_vars
    /\ WF_vars(WorkerThread /\ UNCHANGED <<procVars, stageVars, parseVars, sendVars, bandVars, linkVars>>)
    /\ SF_vars(sendToggleLock /\ UNCHANGED <<procVars, stageVars, parseVars, sendVars, bandVars, linkVars>>)
    /\ WF_vars(SerialCommSendMessage /\ UNCHANGED <<procVars, stageVars, parseVars, sendVars, bandVars, linkVars>>)
    /\ WF_vars(sendToggleUnlock /\ UNCHANGED <<procVars, stageVars, parseVars, sendVars, bandVars, linkVars>>)
    /\ WF_vars(toggleSerialClose /\ UNCHANGED <<procVars, stageVars, parseVars, sendVars, bandVars, linkVars>>)

ParseNext ==
    \/ displayControl /\ UNCHANGED <<procVars, stageVars, workerVars, sendVars, bandVars, linkVars>>
    \/ displayControlUpdate /\ UNCHANGED <<procVars, stageVars, workerVars, sendVars, bandVars, linkVars>>

SpecParse == Init /\ [][ParseNext]_vars

SendNext ==
    \/ editEntry /\ UNCHANGED <<procVars, stageVars, workerVars, parseVars, bandVars, linkVars>>
    \/ sendEntry /\ UNCHANGED <<procVars, stageVars, workerVars, parseVars, bandVars, linkVars>>
    \/ sendPin /\ UNCHANGED <<procVars, stageVars, workerVars, parseVars, bandVars, linkVars>>
    \/ setupSerial /\ UNCHANGED <<procVars, stageVars, workerVars, parseVars, sendVars, bandVars>>
    \/ toggleSerial /\ UNCHANGED <<procVars, stageVars, workerVars, parseVars, sendVars, bandVars>>
    \/ toggleSerialAfterSleep /\ UNCHANGED <<procVars, stageVars, workerVars, parseVars, sendVars, bandVars>>

SpecSend == Init /\ [][SendNext]_vars

BandNext ==
    \/ newReading /\ UNCHANGED <<procVars, stageVars, workerVars, parseVars, sendVars, linkVars>>
    \/ setPressureStyle /\ UNCHANGED <<procVars, stageVars, workerVars, parseVars, sendVars, linkVars>>

SpecBand == Init /\ [][BandNext]_vars

LinkNext ==
    \/ setupSerial /\ UNCHANGED <<procVars, stageVars, workerVars, parseVars, sendVars, bandVars>>
    \/ toggleSerial /\ UNCHANGED <<procVars, stageVars, workerVars, parseVars, sendVars, bandVars>>
    \/ toggleSerialAfterSleep /\ UNCHANGED <<procVars, stageVars, workerVars, parseVars, sendVars, bandVars>>
    \/ serialError /\ UNCHANGED <<procVars, stageVars, workerVars, parseVars, sendVars, bandVars>>
    \/ runStep /\ UNCHANGED <<procVars, stageVars, workerVars, parseVars, sendVars, bandVars>>
    \/ devicePlug /\ UNCHANGED <<procVars, stageVars, workerVars, parseVars, sendVars, bandVars>>

SpecLink == Init /\ [][LinkNext]_vars

(***************************************************************************)
(* Properties                                                              *)
(***************************************************************************)

\* C1 - Stage gating: an advance request (MainWindow.updateStage ->
\* StateMachine.update) made in stage S moves the current stage to the
\* successor of S if and only if every task flag of S is true at the call,
\* and returns False as soon as one flag of S is false.
StageGating ==
    [][(UpdateStage /\ currentStage \in states) =>
          /\ (currentStage' = StateNext[currentStage])
                <=> (\A t \in DOMAIN tasks[currentStage] : tasks[currentStage][t] = TRUE)
          /\ (\E t \in DOMAIN tasks[currentStage] : tasks[currentStage][t] = FALSE)
                => (lastUpdate' = "False" /\ currentStage' = currentStage)
      ]_vars

\* C1 witness: the two tasks of HIGH_PRESS were marked and the advance went through
StageGatingWitness ==
    /\ lastUpdate = HIGH_PRESS
    /\ currentStage = TANK_HP
    /\ tasks[HIGH_PRESS][KBOTTLE] /\ tasks[HIGH_PRESS][COPV_EQ]

\* C2 - Abort absorption: once aborted is true, no advance request and no
\* regress request changes the current stage (in main.py and in gui.py).
AbortAbsorption ==
    [][/\ aborted => currentState' = currentState
       /\ guiAborted => guiCurrentState' = guiCurrentState]_vars

\* C3 - Lock mutual exclusion: the worker is never inside readEolLine while
\* the operator thread is inside SerialComm.sendMessage; a read happens only
\* while the worker holds the mutex and a write only while the operator does.
LockMutualExclusion ==
    /\ ~(wpc = "read" /\ gpc = "write")
    /\ wpc = "read" => mutex = "worker"
    /\ gpc = "write" => mutex = "gui"

\* C3 witness: the worker is reading while a sendToggle call waits for the lock
LockMutualExclusionWitness ==
    /\ wpc = "read" /\ line # <<>>
    /\ gpc = "spin"

\* C4 - Current-stage invariant: the current stage is always a declared stage
\* (test.py) and the stage index always lies in 0..len(LAUNCH_STATES)-1
\* (main.py); it is never null or out of range.
CurrentStageDeclared ==
    /\ currentStage \in states
    /\ currentState \in 0..(Len(LAUNCH_STATES) - 1)

\* C5 - No starvation of operator sends: every sendToggle call eventually
\* gets the lock, writes and returns.
SendNeverStarves == (gpc = "spin") ~> (gpc = "idle")

\* C6 - Degraded mode: a failed read emits the error signal exactly once,
\* after it the worker enters readEolLine no more, and its loop is left only
\* when the running flag has been cleared.
DegradedMode ==
    /\ [](error <=> errors = 1)
    /\ [](errors <= 1)
    /\ [](wpc = "done" => ~program)
    /\ [][error => (wpc' = "read" => wpc = "read")]_vars
    /\ [][errors = 1 => errors' = 1]_vars

\* C6 witness: the worker spins in degraded mode, lock released, flag still set
DegradedModeWitness ==
    /\ error /\ program
    /\ wpc = "try"
    /\ mutex = "free"
    /\ inbound # <<>>

\* C7 - Parse errors are never fatal: no inbound line, however malformed,
\* makes displayControl / parseData / updateDisplay raise an unhandled
\* error, so later lines are still processed.
ParseNeverFatal == ~parseRaised

\* C8 - A write failure in sendToggle is reported by an error signal: when
\* the call has returned, every read failure and every write failure has
\* had its error signal.
WriteFailureSignalled ==
    gpc = "idle" => errors = readFails + writeFails

\* C9 - Abort halts the countdown: once aborted, the moment is not
\* decremented any more and never becomes the launch marker (in main.py
\* and in gui.py).
AbortHaltsCountdown ==
    [][/\ aborted => moment' = moment
       /\ guiAborted => guiMoment' = guiMoment]_vars

\* C10 - Cooperative stop: once the running flag is cleared the worker
\* leaves its loop; it emits cleanup exactly once, on leaving, and no msg
\* or error after it - in reading mode and in degraded mode.
CooperativeStop ==
    /\ (~program) ~> (wpc = "done")
    /\ [](cleanups <= 1)
    /\ [](wpc = "done" <=> cleanups = 1)
    /\ [](~lateSignal)

\* C10 witness: a worker stopped in degraded mode has left its loop
CooperativeStopWitness ==
    /\ wpc = "done" /\ cleanups = 1
    /\ error /\ ~program

\* C11 - Graceful shutdown: SerialComm.close (on toggleSerial's stop branch
\* or on closeEvent) is executed only when the worker has finished its loop
\* iteration: never while the worker holds the lock or is inside readEolLine.
GracefulShutdown ==
    [][(isOpen /\ ~isOpen') => (mutex # "worker" /\ wpc # "read" /\ wpc # "hold")]_vars

\* C12 - An advance request at the last stage fails and leaves the current
\* stage equal to the last stage, even when every task of the last stage is
\* complete (test.py: StateMachine.update; main.py: updateStage; gui.py:
\* _advanceState).
AdvanceAtLastStage ==
    [][/\ (UpdateStage /\ currentStage = FIRE) =>
              (currentStage' = FIRE /\ lastUpdate' = "False")
       /\ (updateStage /\ currentState = Len(LAUNCH_STATES) - 1) =>
              currentState' = currentState
       /\ (_advanceState /\ guiCurrentState = Len(LAUNCH_MODE) - 1) =>
              guiCurrentState' = guiCurrentState
      ]_vars

\* C13 - Fixed task membership: the set of task ids of every stage's
\* completion map is always the one built at construction, and a
\* changeStatus call with a label that is not a task of the current stage
\* (a task of another stage, or an unknown id) changes no task map.
TaskMembershipFixed ==
    /\ [](/\ DOMAIN tasks[IDLE] = DOMAIN IDLE_TASKS
          /\ DOMAIN tasks[HIGH_PRESS] = DOMAIN HP_TASKS
          /\ DOMAIN tasks[TANK_HP] = DOMAIN TANK_HP_TASKS
          /\ DOMAIN tasks[FIRE] = DOMAIN FIRE_TASKS)
    /\ [][\A label \in LabelInputs \ states, status \in BOOLEAN :
            (/\ changeStatus(label, status)
             /\ currentStage \in states
             /\ label \notin DOMAIN tasks[currentStage]) => tasks' = tasks]_vars

\* C14 - Command padding: for every command sendMessage accepts, the string
\* handed to the link by sendToggle has exactly COMMAND_LEN = 8 payload
\* characters before the newline: the operator's characters, then '0's.
CommandPadding ==
    message # <<>> =>
        /\ Len(message) = COMMAND_LEN + 1
        /\ message[Len(message)] = NL
        /\ Len(command) <= COMMAND_LEN
        /\ SubSeq(message, 1, Len(command)) = command
        /\ \A i \in (Len(command) + 1)..COMMAND_LEN : message[i] = "0"

\* C15 - Band classification: every integer pressure reading is classified
\* into exactly one of the bands SAFE (green), MID (yellow), UNSAFE (red) by
\* the configured ranges, with reading 10 SAFE and reading 450 UNSAFE.
BandClassification ==
    style # "none" =>
        /\ style \in {"PRESS_GREEN", "PRESS_YELLOW", "PRESS_RED"}
        /\ (style = "PRESS_GREEN") <=> (reading >= 0 - 1000 /\ reading < 400)
        /\ reading = 10 => style = "PRESS_GREEN"
        /\ reading = 450 => style = "PRESS_RED"

\* C15 amended - as C15, with reading 450 classified MID: a reading is SAFE
\* from -1000 to 399, MID from 401 to 500 and UNSAFE otherwise.
BandClassificationAmended ==
    style # "none" =>
        /\ style \in {"PRESS_GREEN", "PRESS_YELLOW", "PRESS_RED"}
        /\ (style = "PRESS_GREEN") <=> (reading >= 0 - 1000 /\ reading < 400)
        /\ (style = "PRESS_YELLOW") <=> (reading > 400 /\ reading <= 500)
        /\ (style = "PRESS_RED") <=> (reading < 0 - 1000 \/ reading = 400 \/ reading > 500)
        /\ reading = 10 => style = "PRESS_GREEN"
        /\ reading = 450 => style = "PRESS_YELLOW"

\* C15 witness: the reading 450 has been given its colour
BandClassificationWitness ==
    reading = 450 /\ style = "PRESS_YELLOW"

\* the line '10, 200, 450'
ExampleLine ==
    <<"1", "0", ",", " ", "2", "0", "0", ",", " ", "4", "5", "0">>

\* the text s holds the separator ', '
HasSeparator(s) ==
    \E k \in 1..(Len(s) - 1) : s[k] = "," /\ s[k + 1] = " "

\* C16 - Pressure line parsing: a line with the separator ', ' and no valve
\* marker, made of N parts, yields exactly N readings in order, part i
\* (counted from 1) going to sensor PT i: no value read holds a separator
\* and the values joined by ', ' give the line back.  '10, 200, 450' yields
\* (PT1, 10), (PT2, 200), (PT3, 450), which updateDisplay shows on PT1..PT3.
PressureLineParsing ==
    /\ [](dpc = "parsed" /\ string[1] # "T" /\ HasSeparator(string) =>
            /\ Len(data) >= 2
            /\ \A i \in 1..Len(data) :
                  /\ data[i].dest = <<"P", "T", Digits[i + 1]>>
                  /\ ~HasSeparator(data[i].value)
            /\ Join([i \in 1..Len(data) |-> data[i].value], <<",", " ">>) = string)
    /\ [](dpc = "parsed" /\ string = ExampleLine =>
            data = << [dest |-> <<"P", "T", "1">>, value |-> <<"1", "0">>],
                      [dest |-> <<"P", "T", "2">>, value |-> <<"2", "0", "0">>],
                      [dest |-> <<"P", "T", "3">>, value |-> <<"4", "5", "0">>] >>)
    /\ [][(dpc = "parsed" /\ string \in {ExampleLine, ExampleLine \o <<NL>>}
               /\ dpc' = "idle") =>
             /\ dynamicLabels'[<<"P", "T", "1">>].text = <<"1", "0">>
             /\ dynamicLabels'[<<"P", "T", "2">>].text = <<"2", "0", "0">>
             /\ dynamicLabels'[<<"P", "T", "3">>].text = <<"4", "5", "0">>
             /\ dynamicLabels'[<<"P", "T", "4">>] = dynamicLabels[<<"P", "T", "4">>]]_vars

\* C16 witness: '10, 200, 450' has been parsed into three readings
PressureLineParsingWitness ==
    /\ dpc = "parsed"
    /\ string = ExampleLine
    /\ Len(data) = 3

\* the line 'Toggle PIN3 ' + status + e
ValveLineOf(status, e) ==
    <<"T", "o", "g", "g", "l", "e", " ", "P", "I", "N", "3", " ">> \o status \o e

\* C17 - Valve line parsing: a line 'Toggle PIN' + pin number + ' ' +
\* integer status (with or without the line feed) yields exactly one valve
\* status, for that pin, shown OPEN if and only if the status is non-zero
\* and CLOSE if it is 0; no other label changes and nothing is raised.
ValveLineParsing ==
    /\ [](\A n \in 1..(MaxRest - 1) : \A status \in [1..n -> {"0", "1"}] :
            \A e \in {<<>>, <<NL>>} :
                (dpc = "parsed" /\ string = ValveLineOf(status, e)) =>
                    data = << [dest |-> <<"S", "V", "3">>, value |-> status \o e] >>)
    /\ [][\A n \in 1..(MaxRest - 1) : \A status \in [1..n -> {"0", "1"}] :
            \A e \in {<<>>, <<NL>>} :
                (dpc = "parsed" /\ string = ValveLineOf(status, e)) =>
                    /\ ~parseRaised'
                    /\ dpc' = "idle"
                    /\ dynamicLabels'[<<"S", "V", "3">>].text =
                          IF \E i \in 1..n : status[i] = "1"
                          THEN <<"O", "P", "E", "N">>
                          ELSE <<"C", "L", "O", "S", "E">>
                    /\ \A k \in DOMAIN dynamicLabels \ {<<"S", "V", "3">>} :
                          dynamicLabels'[k] = dynamicLabels[k]]_vars

\* C17 witness: 'Toggle PIN3 1' has been shown, valve 3 reads OPEN
ValveLineParsingWitness ==
    /\ dpc = "idle"
    /\ ~parseRaised
    /\ dynamicLabels[<<"S", "V", "3">>] = [text |-> OPEN_TEXT, style |-> "VALVE_ON"]

\* C18 - Abort is always available and permanent: in every stage an abort
\* can be confirmed (main.py: both abort buttons; gui.py: ABORT), and once
\* the aborted flag is true no operation sets it back to false; a second
\* abort request leaves the flag, the stage and the countdown as they are.
AbortPermanent ==
    /\ [](~aborted => /\ ENABLED (abortOverpressure /\ aborted')
                       /\ ENABLED (abortIgnitionFail /\ aborted'))
    /\ [](ENABLED (_abortMission /\ guiAborted'))
    /\ [][aborted => aborted']_vars
    /\ [][guiAborted => guiAborted']_vars
    /\ [][(aborted /\ (abortOverpressure \/ abortIgnitionFail)) =>
            UNCHANGED <<aborted, currentState, moment, countdown>>]_vars
    /\ [][(guiAborted /\ _abortMission) =>
            UNCHANGED <<guiAborted, guiCurrentState, guiMoment, guiCountdown>>]_vars

\* C18 witness: both windows aborted in their last stage, gui.py's with a
\* countdown that has run out
AbortPermanentWitness ==
    /\ aborted /\ currentState = Len(LAUNCH_STATES) - 1
    /\ guiAborted /\ guiCurrentState = Len(LAUNCH_MODE) - 1
    /\ guiMoment = BLASTOFF

\* C19 - Idempotent task marking: changeStatus(task, True) for a task of
\* the current stage that is already complete leaves every task flag and
\* the current stage unchanged and raises no error.
IdempotentMarking ==
    [][\A label \in TaskIds :
        (/\ changeStatus(label, TRUE)
         /\ currentStage \in states
         /\ label \in DOMAIN tasks[currentStage]
         /\ tasks[currentStage][label] = TRUE)
        => (tasks' = tasks /\ currentStage' = currentStage /\ ~procRaised')]_vars

\* C19 witness: COPV_O is complete in stage IDLE and changeStatus has been
\* called MaxDirectCalls times without any other trace
IdempotentMarkingWitness ==
    /\ currentStage = IDLE
    /\ directCalls = MaxDirectCalls
    /\ tasks[IDLE] = (COPV_OPEN :> TRUE)
    /\ labelColor = [l \in LabelKeys |-> IF l = COPV_OPEN THEN "#00A891" ELSE "white"]

\* C20 - Regress: a regress request (main.py previousStage) at the first
\* stage fails and leaves the stage unchanged; at any other stage, when the
\* mission is not aborted and the operator confirms, it moves the current
\* stage to exactly the preceding one (and shows it); unconfirmed, it
\* changes nothing.
Regress ==
    /\ [](currentState >= 0)
    /\ [][\A ok \in BOOLEAN :
            previousStageFrom(ok) =>
                IF currentState = 0 THEN UNCHANGED mainStageVars
                ELSE IF aborted THEN TRUE
                ELSE IF ok
                THEN /\ currentState' = currentState - 1
                     /\ stateDisplay' = [kind |-> "STAGE", n |-> 0,
                                          stage |-> LAUNCH_STATES[currentState' + 1]]
                     /\ UNCHANGED <<aborted, moment, countdown>>
                ELSE UNCHANGED mainStageVars]_vars
    /\ [](currentState > 0 /\ ~aborted =>
            ENABLED (previousStage /\ currentState' = currentState - 1))

\* C20 witness: back in the first stage with its name on display after a
\* countdown text had replaced it - only a regress from stage 1 shows it
RegressWitness ==
    /\ ~aborted
    /\ currentState = 0
    /\ moment # NO_MOMENT
    /\ stateDisplay = StageText(LAUNCH_STATES[1])

(***************************************************************************)
(* C21 - Each sendToggle call performs exactly one write of its message    *)
(* while it holds the lock and then releases the lock; N calls give N      *)
(* writes in call order, none lost, merged or duplicated.  A write is a    *)
(* call of connection.write: the calls the device took are in wire, each   *)
(* under the number of its sendToggle call, and the calls that raised are  *)
(* counted in writeFails.                                                  *)
(***************************************************************************)
SendSerialization ==
    /\ gpc \in {"write", "unlock"} => mutex = "gui"
    /\ gpc \in {"idle", "spin", "stop_sleep"} => mutex # "gui"
    /\ Len(wire) + writeFails =
           IF gpc \in {"spin", "write"} THEN sendCalls - 1 ELSE sendCalls
    /\ \A i, j \in DOMAIN wire : i < j => wire[i] < wire[j]
    /\ \A i \in DOMAIN wire : wire[i] \in 1..sendCalls
    /\ (writeFails = 0 /\ gpc \notin {"spin", "write"})
           => wire = [i \in 1..sendCalls |-> i]

(* Two sendToggle calls have returned, both written in call order, while   *)
(* the worker was reading and forwarding a line.                           *)
SendSerializationWitness ==
    /\ gpc = "idle"
    /\ sendCalls >= 2
    /\ wire = [i \in 1..sendCalls |-> i]
    /\ mutex = "worker"
    /\ Len(emitted) >= 1

\* the line 'Toggle PIN3, 1': valve marker and pressure separator together
MarkedSeparatorLine ==
    <<"T", "o", "g", "g", "l", "e", " ", "P", "I", "N", "3", ",", " ", "1">>

\* C22 - Parser rule order: exactly one rule applies to each line, chosen
\* in priority order.  A line holding the valve marker goes to the valve
\* rule even if it also holds the separator ', ' (one pair for an SV
\* destination, or the unpacking of the valve rule raises; never a PT
\* reading); otherwise a line holding the separator goes to the pressure
\* rule (PT readings only); otherwise the line is unrecognized: the parse
\* result is empty and the display step changes no label.
ParserRuleOrder ==
    /\ [](dpc = "parsed" =>
            IF Contains(string, VALVE_TAG)
            THEN /\ Len(data) = 1
                 /\ SubSeq(data[1].dest, 1, 2) = <<"S", "V">>
            ELSE IF HasSeparator(string)
            THEN /\ Len(data) >= 2
                 /\ \A i \in 1..Len(data) : SubSeq(data[i].dest, 1, 2) = <<"P", "T">>
            ELSE data = <<>>)
    /\ [][(dpc = "idle" /\ dpc' = "idle" /\ parseRaised') =>
              Contains(string', VALVE_TAG)]_vars
    /\ [][(dpc = "parsed" /\ ~Contains(string, VALVE_TAG) /\ ~HasSeparator(string)) =>
              /\ dynamicLabels' = dynamicLabels
              /\ ~parseRaised'
              /\ dpc' = "idle"]_vars

\* C22 witness: a line with the marker and the separator was given to the
\* valve rule
ParserRuleOrderWitness ==
    /\ dpc = "parsed"
    /\ string = MarkedSeparatorLine
    /\ data = << [dest |-> <<"S", "V", "3", ",">>, value |-> <<"1">>] >>

\* C23 - Connection failure on start is surfaced synchronously and changes
\* nothing: when toggleSerial (called by the button or by serialError) takes
\* its start branch and the device cannot be opened, the box "Serial
\* connection could not be established." is shown in the same call,
\* serialOn stays false, no worker is created or started, and the window
\* is left where the start branch applies again; a start with the device
\* present then turns the link on with one new worker in its loop.
ConnectionFailureHarmless ==
    /\ [][(lpc = "idle" /\ serialSet /\ ~linkOn /\ ~deviceUp
              /\ (toggleSerial \/ serialError)) =>
                 /\ linkBox' = BOX_NOT_ESTABLISHED
                 /\ ~linkOn'
                 /\ workers' = workers
                 /\ serialSet' /\ lpc' = "idle"]_vars
    /\ [][(lpc = "idle" /\ serialSet /\ ~linkOn /\ deviceUp /\ toggleSerial) =>
                 /\ linkOn'
                 /\ Len(workers') = Len(workers) + 1
                 /\ workers'[Len(workers')].pos = "loop"
                 /\ SubSeq(workers', 1, Len(workers)) = workers]_vars

\* C23 witness: a start failed (its box is still the last one shown) and a
\* later start made the first worker
ConnectionFailureHarmlessWitness ==
    /\ linkBox = BOX_NOT_ESTABLISHED
    /\ linkOn
    /\ Len(workers) = 1
    /\ workers[1].pos = "loop"

\* the writes on the link that no sendToggle call of the GUI thread made:
\* all writes (taken by the device or raised) less the calls of the GUI
\* thread that passed their write
WorkerWrites ==
    (Len(wire) + writeFails)
        - (IF gpc \in {"spin", "write"} THEN sendCalls - 1 ELSE sendCalls)

\* C24 - As documented on SerialWorker.run ("Sends initial toggle and
\* continuously reads until indicated to stop, then toggles again"): the
\* worker has written a toggle of its own before its first read, and a
\* second one when it has left its loop after being told to stop.
ToggleAtStartAndStop ==
    /\ wpc \in {"read", "hold", "gap"} => WorkerWrites >= 1
    /\ wpc = "done" => WorkerWrites >= 2

\* C25 - The worker releases the lock after every read attempt, whether
\* the read returned data, timed out empty or raised: the step that follows
\* the read attempt frees the lock and emits nothing; a msg signal is
\* emitted only when the worker does not hold the lock; and the worker
\* never holds the lock at the top of a loop iteration (nor at its tryLock
\* test, in the pause after unlock, or after the loop).
LockReleasedAfterRead ==
    /\ [](wpc \in {"top", "try", "gap", "done"} => mutex # "worker")
    /\ [](wpc \in {"read", "hold"} => mutex = "worker")
    /\ [][(wpc = "hold" /\ wpc' # "hold") =>
              (wpc' = "gap" /\ mutex' = "free" /\ emitted' = emitted)]_vars
    /\ [][(Len(emitted') > Len(emitted) /\ emitted'[Len(emitted')].sig = "msg") =>
              (mutex # "worker" /\ wpc = "gap")]_vars

\* C25 witness: a read that returned a line was forwarded, a later read
\* raised, and the worker has released the lock after it
LockReleasedAfterReadWitness ==
    /\ wpc = "gap"
    /\ error /\ readFails >= 1
    /\ mutex = "free"
    /\ \E i \in DOMAIN emitted : emitted[i].sig = "msg"

\* the payloads of the msg signals in the log e, in emission order
MsgPayloads(e) ==
    LET IsMsg(x) == x.sig = "msg"
        msgs == SelectSeq(e, IsMsg)
    IN  [i \in 1..Len(msgs) |-> msgs[i].data]

\* C26 - Event ordering: the messages emitted by the worker are the
\* non-empty reads in read order - at every moment all of them, except the
\* read just finished whose message is still to be emitted; when a read
\* starts, the message of every earlier non-empty read has been emitted;
\* and an empty read emits nothing.
EventOrdering ==
    /\ [](MsgPayloads(emitted) =
             IF wpc \in {"hold", "gap"} /\ received # <<>> /\ Len(emitted) < MaxLog
             THEN SubSeq(reads, 1, Len(reads) - 1)
             ELSE reads)
    /\ [](wpc = "read" => MsgPayloads(emitted) = reads)
    /\ [][(wpc = "gap" /\ received = <<>>) => emitted' = emitted]_vars

\* C26 witness: two different non-empty reads were forwarded, in read order
EventOrderingWitness ==
    /\ wpc = "top"
    /\ Len(reads) >= 2
    /\ reads[1] # reads[2]
    /\ MsgPayloads(emitted) = reads

\* C27 - Every message the worker forwards is one complete line: it ends
\* with a line feed and holds no other line feed (so a line whose bytes
\* arrive on both sides of a read timeout is not forwarded in fragments).
CompleteLines ==
    \A i \in DOMAIN emitted :
        emitted[i].sig = "msg" =>
            LET m == emitted[i].data
            IN  /\ m # <<>>
                /\ m[Len(m)] = LF
                /\ \A k \in 1..(Len(m) - 1) : m[k] # LF

\* the workers that have not left their loop
RunningLoops == {w \in DOMAIN workers : workers[w].pos # "done"}

\* C28 - At most one worker loop is running at any time, across any
\* sequence of start and stop requests: no new SerialWorker is started while
\* a worker started before has not left its loop.
SingleWorkerLoop ==
    Cardinality(RunningLoops) <= 1

\* C29 - Countdown is single-shot and strictly decreasing: it starts at the
\* last stage showing 10, every later change of the displayed value is a
\* decrease by exactly one, ending in the launch marker (BLASTOFF, after 1),
\* with which the timer stops; an advance request never moves the value up
\* or starts the countdown again (gui.py: _advanceState / _countDown;
\* main.py: updateStage / countDown's timer).
CountdownSingleShot ==
    /\ [][/\ (guiMoment = NO_MOMENT /\ guiMoment' # NO_MOMENT) =>
                 (guiMoment' = COUNT_START - 1
                    /\ guiCurrentState = Len(LAUNCH_MODE) - 1)
          /\ (guiMoment # NO_MOMENT /\ guiMoment' # guiMoment) =>
                 (guiMoment >= 1 /\ guiMoment' = guiMoment - 1)
          /\ (guiMoment' = BLASTOFF) => guiCountdown' # "active"
          /\ (guiMoment # NO_MOMENT /\ _advanceState) =>
                 (guiMoment' = guiMoment /\ guiCountdown' = guiCountdown)]_vars
    /\ [][/\ countSecond => (moment >= 1 /\ moment' = moment - 1)
          /\ (moment' = BLASTOFF) => countdown' # "active"
          /\ updateStage => (moment' = moment /\ countdown' = countdown)]_vars

\* C30 - A failed advance changes nothing: when StateMachine.update
\* returns False because a task of the current stage is incomplete, the
\* current stage and every task flag of every stage are after the call
\* what they were before it (and no label changes colour).
FailedAdvanceNoChange ==
    [][(UpdateStage /\ currentStage \in DOMAIN tasks
           /\ \E t \in DOMAIN tasks[currentStage] : tasks[currentStage][t] = FALSE) =>
              /\ lastUpdate' = "False"
              /\ currentStage' = currentStage
              /\ tasks' = tasks
              /\ labelColor' = labelColor]_vars

\* C30 witness: an advance was refused in the second stage, where one task
\* is complete and one is not, and the flags of the first stage are all set
FailedAdvanceNoChangeWitness ==
    /\ currentStage = HIGH_PRESS
    /\ lastUpdate = "False"
    /\ \E t \in DOMAIN tasks[HIGH_PRESS] : tasks[HIGH_PRESS][t] = TRUE
    /\ \E t \in DOMAIN tasks[HIGH_PRESS] : tasks[HIGH_PRESS][t] = FALSE
    /\ \A t \in DOMAIN tasks[IDLE] : tasks[IDLE][t] = TRUE

\* the task ids of a stage in declaration order (RocketStates.IDLE_TASKS,
\* HP_TASKS, TANK_HP_TASKS, FIRE_TASKS)
DeclaredTasks(stage) ==
    CASE stage = IDLE -> <<COPV_OPEN>>
      [] stage = HIGH_PRESS -> <<KBOTTLE, COPV_EQ>>
      [] stage = TANK_HP -> <<COPV_CLOSE, TANKS_OPEN>>
      [] stage = FIRE -> <<FIRE_INIT>>

\* C31 - Confirm handlers agree with gating: for every stage the confirm
\* handler returns NULL exactly when every flag update() looks at for that
\* stage is set (update() would not be blocked by a task); otherwise it
\* returns the first incomplete task in declaration order, and updateTask
\* marks that task and no other.
ConfirmsAgreeWithGating ==
    /\ [](\A s \in states :
            /\ (Confirms(s) = NULL) <=> (\A t \in DOMAIN tasks[s] : tasks[s][t] = TRUE)
            /\ Confirms(s) # NULL =>
                  \E i \in DOMAIN DeclaredTasks(s) :
                      /\ Confirms(s) = DeclaredTasks(s)[i]
                      /\ tasks[s][DeclaredTasks(s)[i]] = FALSE
                      /\ \A j \in 1..(i - 1) : tasks[s][DeclaredTasks(s)[j]] = TRUE)
    /\ [][(UpdateTask /\ tasks' # tasks) =>
              (/\ currentStage \in states
               /\ Confirms(currentStage) # NULL
               /\ tasks' = [tasks EXCEPT ![currentStage][Confirms(currentStage)] = TRUE])]_vars

\* C32 - An error signal delivered after the operator has stopped the link
\* does not restart it: handling serialError never creates a connection or
\* a worker, and never turns serialOn from false to true.
NoAutoRestart ==
    [][serialError =>
          /\ Len(workers') = Len(workers)
          /\ ~linkOn => ~linkOn']_vars

\* C33 - In every reachable state of the main window serialOn implies
\* serialSet: the link is never running while the serial settings count as
\* not configured, under any sequence of setupSerial (accepted or
\* cancelled), toggleSerial and serialError.
OnImpliesSet ==
    linkOn => serialSet

\* the order of the bands: SAFE (green) < MID (yellow) < UNSAFE (red)
Severity(st) ==
    CASE st = "PRESS_GREEN" -> 0
      [] st = "PRESS_YELLOW" -> 1
      [] st = "PRESS_RED" -> 2

\* C34 - Band classification is monotone in the reading: for all integers
\* a < b with a >= -1000 the band of a is never more severe than the band
\* of b - here b is the reading just classified and a any smaller reading;
\* in particular no reading between a SAFE and a MID reading is UNSAFE.
BandMonotone ==
    style # "none" =>
        \A a \in (0 - 1000)..(reading - 1) : Severity(Band(a)) <= Severity(style)

\* C35 - A non-numeric value in one position of a pressure line affects
\* only that position: when the readings of a pressure line are displayed,
\* every well-formed reading of the line (an integer, for a sensor that has
\* a label), before and after a malformed one, is shown on its own sensor.
BadValueIsolated ==
    [][(dpc = "parsed" /\ data # <<>>
           /\ \A i \in DOMAIN data : SubSeq(data[i].dest, 1, 2) = <<"P", "T">>) =>
              \A i \in DOMAIN data :
                  (IsInt(Strip(data[i].value, Whitespace))
                      /\ data[i].dest \in DOMAIN dynamicLabels) =>
                         dynamicLabels'[data[i].dest].text =
                             Strip(data[i].value, Whitespace)]_vars

\* C36 - No deadlock on the shared lock: in every reachable state in which
\* the worker is in degraded mode (its error flag is set) or has terminated
\* (cleanup emitted) the worker does not hold the lock, so a sendToggle
\* issued at that point acquires the lock and returns.
NoLockDeadlock ==
    /\ []((error \/ wpc = "done") => mutex # "worker")
    /\ ((error \/ wpc = "done") /\ gpc = "spin") ~> (gpc = "idle")

\* C36 amended - the worker still holds the lock when it enters degraded
\* mode (the flag is set inside the failed read's iteration, the unlock
\* follows after the sleep); from that unlock on - at its loop test in
\* degraded mode and after termination - it does not hold the lock and
\* never takes it again, and a sendToggle issued in degraded mode or after
\* termination acquires the lock and returns.
NoLockDeadlockAmended ==
    /\ [](((error /\ wpc \in {"top", "try", "gap"}) \/ wpc = "done") => mutex # "worker")
    /\ [](error /\ mutex = "worker" => wpc = "hold")
    /\ [][(error /\ mutex # "worker") => mutex' # "worker"]_vars
    /\ ((error \/ wpc = "done") /\ gpc = "spin") ~> (gpc = "idle")

\* C36 witness: the worker is at its loop test in degraded mode and a
\* sendToggle call holds the lock
NoLockDeadlockWitness ==
    /\ error
    /\ wpc \in {"top", "try"}
    /\ gpc = "write"
    /\ mutex = "gui"

\* C37 - Send guard: sendMessage calls sendToggle (a new command and
\* message reach the link) only when serialSet and serialOn are both true
\* at the call and no character occurs more than once in the command; in
\* every other case nothing is written: without serialSet and serialOn the
\* call only shows the box "Serial Error".
SendGuard ==
    /\ [][(message' # message \/ command' # command) =>
              /\ serialSet /\ linkOn
              /\ Cardinality(CharsOf(command')) = Len(command')
              /\ message' = SendToggleMessage(MSG_PAD(command'))]_vars
    /\ [][((sendEntry \/ sendPin) /\ ~(serialSet /\ linkOn)) =>
              /\ message' = message /\ command' = command
              /\ confBox' = "Serial Error"]_vars

\* C37 witness: a command went out while the link was configured and on;
\* then the settings dialog was cancelled and the next send was refused
\* with the link still on
SendGuardWitness ==
    /\ message # <<>>
    /\ linkOn /\ ~serialSet
    /\ confBox = "Serial Error"

\* C38 - Marking a task touches only that task: changeStatus for a task of
\* the current stage changes that one flag and leaves the current stage,
\* every other flag of the same stage and all flags of all other stages
\* unchanged (called directly, or by updateTask); changeStatus with a stage
\* name (called directly, or by updateStage after an advance) changes no
\* task flag at all.
MarkingFrame ==
    /\ [][\A label \in TaskIds, status \in BOOLEAN :
            (/\ changeStatus(label, status)
             /\ currentStage \in states
             /\ \E i \in DOMAIN DeclaredTasks(currentStage) :
                    DeclaredTasks(currentStage)[i] = label) =>
                /\ currentStage' = currentStage
                /\ tasks' = [tasks EXCEPT ![currentStage][label] = status]]_vars
    /\ [][(UpdateTask /\ tasks' # tasks) =>
            /\ currentStage' = currentStage
            /\ \E i \in DOMAIN DeclaredTasks(currentStage) :
                  tasks' = [tasks EXCEPT ![currentStage][DeclaredTasks(currentStage)[i]] = TRUE]]_vars
    /\ [][\A label \in states, status \in BOOLEAN :
            changeStatus(label, status) => tasks' = tasks]_vars
    /\ [][UpdateStage => tasks' = tasks]_vars

\* C38 witness: in the second stage the second task is marked and the
\* first is not (updateTask marks in order, so a direct changeStatus call
\* for a task of the current stage has acted); the other stages are as built
MarkingFrameWitness ==
    /\ currentStage = HIGH_PRESS
    /\ directCalls >= 1
    /\ tasks[HIGH_PRESS] = (KBOTTLE :> FALSE) @@ (COPV_EQ :> TRUE)
    /\ tasks[TANK_HP] = TANK_HP_TASKS
    /\ tasks[FIRE] = FIRE_TASKS

\* C39 - After the running flag has been cleared the worker starts no new
\* read: at most the single read already in progress completes, so at most
\* one further message (or one error) is emitted between the clearing of
\* the flag and the cleanup signal.
NoReadAfterStop ==
    /\ [][(~program /\ wpc' = "read") => wpc = "read"]_vars
    /\ [](afterStop <= 1)

\* C39 amended - after the flag has been cleared the worker passes its loop
\* test no more; a read can still begin, but only in the iteration whose
\* loop test was passed before the clearing, so at most one read completes
\* and at most one further message (or one error) is emitted between the
\* clearing of the flag and the cleanup signal.
NoReadAfterStopAmended ==
    /\ [][(~program /\ wpc = "top" /\ wpc' # "top") => wpc' = "done"]_vars
    /\ [][(~program /\ wpc' = "read") => wpc \in {"try", "read"}]_vars
    /\ [][(~program /\ wpc = "done") => wpc' = "done"]_vars
    /\ [](afterStop <= 1)

\* C39 witness: the flag was cleared, one more message or error was
\* emitted, and the worker has left its loop
NoReadAfterStopWitness ==
    /\ ~program
    /\ wpc = "done"
    /\ afterStop = 1

====
